---- MODULE Spec2Model ----
(***************************************************************************)
(* Monte Carlo Tree Search route builder (askcos, mcts/v2/tree_builder.py) *)
(* as a state machine: the search graph of chemical and reaction nodes,    *)
(* the driver loop of build_tree, one rollout as select / expand / update, *)
(* and path extraction on the finished graph.                              *)
(*                                                                         *)
(* Numbers: relevance probabilities are per-mille integers (600 is 0.6),   *)
(* plausibility scores are twentieths (15 is 0.75); est_value is a sum of  *)
(* 1.0 and 0.0 and is an integer; UCB scores are per-mille, with ln and    *)
(* sqrt rounded down.                                                      *)
(***************************************************************************)
EXTENDS Integers, Sequences, FiniteSets, TLC

VARIABLES
    pc,             \* position of the driver: build_tree / _rollout / enumerate_paths
    opts,           \* the options set by set_options
    target,         \* self.target
    chemicals,      \* self.chemicals
    reactions,      \* self.reactions
    tree,           \* self.tree: [chem: smiles -> data, rxn: smiles -> data]
    iterations,     \* self.iterations
    time_to_solve,  \* self.time_to_solve
    chem_path,      \* _rollout: the chemical path returned by _select
    rxn_path,       \* _rollout: the reaction path returned by _select
    template,       \* _rollout: the template returned by _select
    precursors,     \* _expand: sizes of the precursor sets still to be processed
    upd,            \* _update: number of path entries still to be visited
    applied,        \* history: <<chemical, template>> of every _get_precursors call
    timed_out,      \* history: the loop of build_tree ended on its time budget
    processed,      \* history: the precursor set _process_precursors handled last
    output,         \* the result of enumerate_paths
    transformer     \* a TemplateTransformer: [templates, id_to_index]

vars == <<pc, opts, target, chemicals, reactions, tree, iterations, time_to_solve,
          chem_path, rxn_path, template, precursors, upd, applied, timed_out,
          processed, output, transformer>>

-----------------------------------------------------------------------------
(* Bounds of the model *)

\* Rollouts the expansion time budget leaves room for, at most.
MaxRollouts == 6

\* Python's None for an optional number.
None == -1

\* The chemicals of the universe; chemical 1 is the target.
Universe == {1, 2, 3}

Range(s) == {s[i] : i \in 1..Len(s)}

Last(s) == s[Len(s)]

Front(s) == SubSeq(s, 1, Len(s) - 1)

Max2(a, b) == IF a >= b THEN a ELSE b

Min2(a, b) == IF a <= b THEN a ELSE b

RECURSIVE SumSeq(_)
SumSeq(s) == IF s = <<>> THEN 0 ELSE s[1] + SumSeq(Tail(s))

-----------------------------------------------------------------------------
(* External collaborators: what they may return *)

\* template_prioritizer.predict: the ordered mapping template id -> relevance,
\* in descending relevance; a chemical is offered a prefix of this list.
TemplateRanking == << <<1, 600>>, <<2, 300>> >>

TemplateLists == {SubSeq(TemplateRanking, 1, n) : n \in 0..Len(TemplateRanking)}

\* pricer.lookup_smiles: None (not purchasable) or a price per gram.
Prices == {None, 1}

\* What predict and the pricer return for a precursor
ChemInputs ==
    [templates : TemplateLists, price : {None}]
    \cup [templates : {SubSeq(TemplateRanking, 1, 1)}, price : {1}]

\* What predict and the pricer return for the target
TargetInputs == ChemInputs \cup [templates : {<<>>}, price : {1}]

\* Reactant lists one outcome of apply_one_template may hold (smiles_split).
ReactantLists ==
    {<<a>> : a \in Universe} \cup {<<a, b>> : a \in Universe, b \in Universe}

\* What apply_one_template may return: the number of reactants of each of
\* its precursor sets, in order.
OutcomeShapes == {<<>>, <<1>>, <<2>>, <<1, 1>>}

\* fast_filter(reactant_smiles, target): a fixed stand-in for the classifier,
\* low for a dimerisation, lower for two reactants than for one.
FastFilter(reactant_list, product) ==
    IF Len(reactant_list) = 2 /\ reactant_list[1] = reactant_list[2] THEN 10
    ELSE IF Len(reactant_list) = 1 THEN 18
    ELSE 16

-----------------------------------------------------------------------------
(* Options *)

DefaultOptions ==
    [ fast_filter_threshold |-> 15,
      max_iterations        |-> None,
      max_chemicals         |-> None,
      max_reactions         |-> None,
      max_branching         |-> 25,
      max_depth             |-> 10,
      exploration_weight    |-> 1,
      return_first          |-> FALSE,
      max_trees             |-> None,
      banned_chemicals      |-> {},
      banned_reactions      |-> {},
      max_ppg               |-> None ]

\* The keyword arguments build_tree is called with in this model.
OptionSets ==
    { DefaultOptions,
      [DefaultOptions EXCEPT !.max_branching = 1, !.max_depth = 2] }

\* Keyword arguments that ban chemical 3, or the reaction of chemical 2 to the
\* target, with a threshold every precursor set passes; and the defaults, whose
\* threshold a dimerisation does not pass, with a small max_depth
BannedOptionSets ==
    { [DefaultOptions EXCEPT !.banned_chemicals = {3}, !.fast_filter_threshold = 10],
      [DefaultOptions EXCEPT !.banned_reactions = {<<<<2>>, 1>>},
                             !.fast_filter_threshold = 10],
      [DefaultOptions EXCEPT !.max_depth = 1] }

\* Keyword arguments that set one budget each, or return_first
BudgetOptionSets ==
    { [DefaultOptions EXCEPT !.max_iterations = 2],
      [DefaultOptions EXCEPT !.max_chemicals = 3],
      [DefaultOptions EXCEPT !.max_reactions = 2],
      [DefaultOptions EXCEPT !.return_first = TRUE] }

\* Keyword arguments of the builds of an instance that is used again
ReuseOptionSets ==
    { [DefaultOptions EXCEPT !.return_first = TRUE],
      [DefaultOptions EXCEPT !.max_iterations = 2] }

-----------------------------------------------------------------------------
(* Node data and graph primitives *)

EmptyTree == [chem |-> <<>>, rxn |-> <<>>]

Rxn(reactant_list, product) == <<reactant_list, product>>

Keys(templates) == [i \in 1..Len(templates) |-> templates[i][1]]

\* templates[t] of the OrderedDict
Relevance(templates, t) ==
    LET i == CHOOSE j \in 1..Len(templates) : templates[j][1] = t
    IN  templates[i][2]

\* tree.out_degree of a chemical / a reaction
OutDegreeC(T, c) == Len(T.chem[c].succ)

OutDegreeR(T, r) == Len(T.rxn[r].succ)

\* An add_edge that appends to the adjacency whether the edge is new or not
AddSuccAgain(succ, v) == Append(succ, v)

\* nx.DiGraph.add_edge appends to the adjacency only if the edge is new
AddSucc(succ, v) == IF v \in Range(succ) THEN succ ELSE Append(succ, v)

\* Chemicals one reaction step below a chemical
ChemSuccessors(T, c) ==
    UNION {Range(T.rxn[r].succ) : r \in Range(T.chem[c].succ)}

RECURSIVE Descendants(_, _)
Descendants(T, S) ==
    LET next == S \cup UNION {ChemSuccessors(T, c) : c \in S \cap DOMAIN T.chem}
    IN  IF next = S THEN S ELSE Descendants(T, next)

\* nx.has_path(tree, source, dest) between two chemicals
has_path(T, source, dest) == dest \in Descendants(T, {source})

-----------------------------------------------------------------------------
(* Terminal criterion *)

\* Python's bool() of an optional number: None and 0 are false
Truthy(x) == x # None /\ x # 0

\* MCTS.is_terminal with the criteria this model configures (max_ppg)
is_terminal(o, ppg) ==
    LET results_and ==
            <<Truthy(ppg)>> \o
            (IF o.max_ppg # None /\ ppg # None THEN <<ppg <= o.max_ppg>> ELSE <<>>)
        results_or == <<>>
    IN  (\A i \in 1..Len(results_and) : results_and[i])
        \/ (\E i \in 1..Len(results_or) : results_or[i])

-----------------------------------------------------------------------------
(* The terminal criterion with every option *)

\* The criteria termination_logic may name
CriterionNames == {"max_ppg", "max_scscore", "max_elements", "min_history"}

\* termination_logic: a dict from some criteria to the bucket 'and' or 'or'
TerminationLogics ==
    UNION {[names -> {"and", "or"}] : names \in SUBSET CriterionNames}

\* The terminal node criteria set_options reads (lines 124-128); None is an
\* option that is not configured
TerminalOptionSets ==
    [ max_ppg           : {None, 1},
      max_scscore       : {None, 2},
      max_elements      : {<<>>, [C |-> 2, N |-> 2]},
      min_history       : {<<>>, [as_reactant |-> 3, as_product |-> 3]},
      termination_logic : TerminationLogics ]

\* What is_terminal is called with and what it looks up for the smiles: the
\* price, the score of the scscorer, the atom counts of the molecule (<<>>
\* when the smiles does not parse) and the history (<<>> for hist=None)
TerminalInputs ==
    [ ppg      : {None, 0, 1, 2},
      scscore  : {1, 3},
      elements : {<<>>, [C |-> 1, N |-> 1], [C |-> 1, N |-> 3], [C |-> 3, N |-> 1]},
      hist     : {<<>>, [as_reactant |-> 0, as_product |-> 0],
                  [as_reactant |-> 5, as_product |-> 0],
                  [as_reactant |-> 0, as_product |-> 5]} ]

\* A lookup that takes a criterion termination_logic does not name for 'and'
LogicOfOrAnd(o, name, default) ==
    IF name \in DOMAIN o.termination_logic THEN o.termination_logic[name]
    ELSE "and"

\* termination_logic.get(name, default)
LogicOf(o, name, default) ==
    IF name \in DOMAIN o.termination_logic THEN o.termination_logic[name]
    ELSE default

\* The results is_terminal collects, as a sequence of <<bucket, value>>, in
\* the order of lines 632-658
TerminalResults(o, in) ==
    << <<"and", Truthy(in.ppg)>> >>
    \o (IF o.max_ppg # None /\ in.ppg # None
        THEN << <<LogicOf(o, "max_ppg", "and"), in.ppg <= o.max_ppg>> >>
        ELSE <<>>)
    \o (IF o.max_scscore # None
        THEN << <<LogicOf(o, "max_scscore", "or"), in.scscore <= o.max_scscore>> >>
        ELSE <<>>)
    \o (IF o.max_elements # <<>> /\ in.elements # <<>>
        THEN << <<LogicOf(o, "max_elements", "or"),
                  \A k \in DOMAIN o.max_elements :
                      in.elements[k] <= o.max_elements[k]>> >>
        ELSE <<>>)
    \o (IF o.min_history # <<>> /\ in.hist # <<>>
        THEN << <<LogicOf(o, "min_history", "or"),
                  \/ in.hist.as_reactant >= o.min_history.as_reactant
                  \/ in.hist.as_product >= o.min_history.as_product>> >>
        ELSE <<>>)

\* is_terminal(smiles, ppg, hist) under the options o: line 660
is_terminal_with(o, in) ==
    LET results == TerminalResults(o, in)
    IN  \/ \A i \in 1..Len(results) : results[i][1] = "and" => results[i][2]
        \/ \E i \in 1..Len(results) : results[i][1] = "or" /\ results[i][2]

-----------------------------------------------------------------------------
(* Done state *)

\* is_chemical_done(smiles): the cached flag
is_chemical_done(T, c) == T.chem[c].done

\* is_reaction_done(smiles)
is_reaction_done(T, r) ==
    /\ OutDegreeR(T, r) > 0
    /\ \A c \in Range(T.rxn[r].succ) : is_chemical_done(T, c)

\* A done computation that does not look at the depth
ComputeDoneAnyDepth(T, o, c) ==
    LET data == T.chem[c]
    IN  IF data.terminal THEN TRUE
        ELSE IF Len(data.templates) = 0 THEN TRUE
        ELSE IF OutDegreeC(T, c) >= o.max_branching
                \/ Len(data.explored) = Len(data.templates)
             THEN \A r \in Range(data.succ) : is_reaction_done(T, r)
        ELSE FALSE

\* A done computation that asks only whether the branching is exhausted, and
\* not whether the reaction children are done
ComputeDoneExhausted(T, o, c) ==
    LET data == T.chem[c]
    IN  IF data.terminal THEN TRUE
        ELSE IF Len(data.templates) = 0 THEN TRUE
        ELSE IF data.min_depth # None /\ data.min_depth >= o.max_depth THEN TRUE
        ELSE \/ OutDegreeC(T, c) >= o.max_branching
             \/ Len(data.explored) = Len(data.templates)

\* is_chemical_done(smiles, update=True): the value that is computed and cached
ComputeDone(T, o, c) ==
    LET data == T.chem[c]
    IN  IF data.terminal THEN TRUE
        ELSE IF Len(data.templates) = 0 THEN TRUE
        ELSE IF data.min_depth # None /\ data.min_depth >= o.max_depth THEN TRUE
        ELSE IF OutDegreeC(T, c) >= o.max_branching
                \/ Len(data.explored) = Len(data.templates)
             THEN \A r \in Range(data.succ) : is_reaction_done(T, r)
        ELSE FALSE

UpdateDone(T, o, c) == [T EXCEPT !.chem[c].done = ComputeDone(T, o, c)]

-----------------------------------------------------------------------------
(* Node creation: G is [tree, chemicals, reactions] *)

\* create_chemical_node(smiles), given what predict and the pricer return
create_chemical_node(G, o, smiles, templates, purchase_price) ==
    LET terminal == is_terminal(o, purchase_price)
        data == [ est_value      |-> IF terminal THEN 1 ELSE 0,
                  explored       |-> <<>>,
                  min_depth      |-> None,
                  purchase_price |-> purchase_price,
                  solved         |-> terminal,
                  templates      |-> templates,
                  terminal       |-> terminal,
                  visit_count    |-> 1,
                  done           |-> FALSE,
                  succ           |-> <<>> ]
        \* add_node on an existing node updates its attributes, keeps its edges
        kept == IF smiles \in DOMAIN G.tree.chem
                THEN [data EXCEPT !.succ = G.tree.chem[smiles].succ]
                ELSE data
        T1 == [G.tree EXCEPT !.chem =
                  [x \in DOMAIN G.tree.chem \cup {smiles} |->
                      IF x = smiles THEN kept ELSE G.tree.chem[x]]]
    IN  [ tree      |-> UpdateDone(T1, o, smiles),
          chemicals |-> Append(G.chemicals, smiles),
          reactions |-> G.reactions ]

\* create_reaction_node(smiles, template, template_score, ff_score)
create_reaction_node(G, smiles, tmpl, template_score, ff_score) ==
    LET data == [ est_value      |-> 0,
                  ff_score       |-> ff_score,
                  solved         |-> FALSE,
                  template_score |-> template_score,
                  templates      |-> <<tmpl>>,
                  visit_count    |-> 1,
                  tforms         |-> <<>>,
                  succ           |-> <<>>,
                  pred           |-> <<>> ]
        kept == IF smiles \in DOMAIN G.tree.rxn
                THEN [data EXCEPT !.succ = G.tree.rxn[smiles].succ,
                                  !.pred = G.tree.rxn[smiles].pred]
                ELSE data
    IN  [ tree      |-> [G.tree EXCEPT !.rxn =
                            [x \in DOMAIN G.tree.rxn \cup {smiles} |->
                                IF x = smiles THEN kept ELSE G.tree.rxn[x]]],
          chemicals |-> G.chemicals,
          reactions |-> Append(G.reactions, smiles) ]

\* tree.add_edge(chemical, reaction)
AddEdgeCR(T, c, r) ==
    [T EXCEPT !.chem[c].succ = AddSucc(@, r), !.rxn[r].pred = AddSucc(@, c)]

\* tree.add_edge(reaction, chemical)
AddEdgeRC(T, r, c) == [T EXCEPT !.rxn[r].succ = AddSucc(@, c)]

RECURSIVE AddEdgesRC(_, _, _)
AddEdgesRC(T, r, reactant_list) ==
    IF reactant_list = <<>> THEN T
    ELSE AddEdgesRC(AddEdgeRC(T, r, Head(reactant_list)), r, Tail(reactant_list))

-----------------------------------------------------------------------------
(* Value update *)

\* A value update that keeps the stored flag and does not look at the precursors
RxnSolvedStored(T, r) == T.rxn[r].solved

\* The solved value _update_value computes for reaction r
RxnSolved(T, r) ==
    T.rxn[r].solved \/ \A c \in Range(T.rxn[r].succ) : T.chem[c].solved

\* A value update that stores the sum of the precursors' values in place of
\* adding it
update_value_overwriting(T, r) ==
    LET succ      == T.rxn[r].succ
        est_value == SumSeq([i \in 1..Len(succ) |-> T.chem[succ[i]].est_value])
        parent    == T.rxn[r].pred[1]
        solved    == RxnSolved(T, r)
    IN  [T EXCEPT !.rxn[r].est_value = est_value,
                  !.chem[parent].est_value = est_value,
                  !.rxn[r].solved = solved,
                  !.chem[parent].solved = solved]

\* _update_value(smiles) for a reaction node
update_value(T, r) ==
    LET succ      == T.rxn[r].succ
        est_value == SumSeq([i \in 1..Len(succ) |-> T.chem[succ[i]].est_value])
        parent    == T.rxn[r].pred[1]
        solved    == RxnSolved(T, r)
    IN  [T EXCEPT !.rxn[r].est_value = @ + est_value,
                  !.chem[parent].est_value = @ + est_value,
                  !.rxn[r].solved = solved,
                  !.chem[parent].solved = solved]

-----------------------------------------------------------------------------
(* Selection *)

\* 1000 * ln(v), rounded, for the visit counts the model reaches
LnMilli == <<0, 693, 1099, 1386, 1609, 1792, 1946, 2079,
             2197, 2303, 2398, 2485, 2565, 2639, 2708, 2773>>

ISqrt(x) == CHOOSE r \in 0..1700 : r * r <= x /\ (r + 1) * (r + 1) > x

\* 1000 * sqrt(ln(product_visits) / node_visits)
SqrtLnOver == [v \in 1..Len(LnMilli) |-> [n \in 1..Len(LnMilli) |->
                  ISqrt((LnMilli[v] * 1000) \div n)]]

\* Score of following the explored reaction rxn from node
RxnScore(T, node, rxn, exploration_weight) ==
    LET rxn_data == T.rxn[rxn]
        templates == T.chem[node].templates
        product_visits == T.chem[node].visit_count
        est_value == rxn_data.est_value
        node_visits == rxn_data.visit_count
        template_probability ==
            SumSeq([i \in 1..Len(rxn_data.templates) |->
                       Relevance(templates, rxn_data.templates[i])])
        q_sa == (template_probability * est_value) \div node_visits
        u_sa == SqrtLnOver[product_visits][node_visits]
    IN  q_sa + exploration_weight * u_sa

\* Score of applying the unexplored template t to node
TemplateScore(T, node, t, exploration_weight) ==
    LET q_sa == Relevance(T.chem[node].templates, t)
        u_sa == SqrtLnOver[T.chem[node].visit_count][1]
    IN  q_sa + exploration_weight * u_sa

\* The reactions ucb keeps as options
RxnIsOption(T, rxn, path, invalid_options) ==
    ~ ( \/ is_reaction_done(T, rxn)
        \/ Range(T.rxn[rxn].succ) \cap Range(path) # {}
        \/ rxn \in invalid_options.rxn )

\* A template may be applied whatever the out-degree of the node
MayApplyTemplateAlways(T, o, tgt, node) == TRUE

\* A cap that still lets a template through at out-degree max_branching
MayApplyTemplateUpToCap(T, o, tgt, node) ==
    OutDegreeC(T, node) <= o.max_branching \/ node = tgt

\* Whether ucb offers an unexplored template of node at all
MayApplyTemplate(T, o, tgt, node) ==
    OutDegreeC(T, node) < o.max_branching \/ node = tgt

\* A ucb that offers the most relevant template, explored or not
UcbOptionsAnyTemplate(T, o, tgt, node, path, invalid_options) ==
    LET data == T.chem[node]
        keys == Keys(data.templates)
        rxns == SelectSeq(data.succ,
                    LAMBDA r : RxnIsOption(T, r, path, invalid_options))
        rxn_options ==
            [i \in 1..Len(rxns) |->
                [score    |-> RxnScore(T, node, rxns[i], o.exploration_weight),
                 is_rxn   |-> TRUE,
                 rxn      |-> rxns[i],
                 template |-> 0]]
        template_options ==
            IF MayApplyTemplate(T, o, tgt, node) /\ keys # <<>>
            THEN << [score    |-> TemplateScore(T, node, keys[1],
                                                o.exploration_weight),
                     is_rxn   |-> FALSE,
                     rxn      |-> <<>>,
                     template |-> keys[1]] >>
            ELSE <<>>
    IN  rxn_options \o template_options

\* A ucb that offers the least relevant unexplored template
UcbOptionsLeastRelevant(T, o, tgt, node, path, invalid_options) ==
    LET data == T.chem[node]
        explored == Range(data.explored)
        keys == Keys(data.templates)
        rxns == SelectSeq(data.succ,
                    LAMBDA r : RxnIsOption(T, r, path, invalid_options))
        rxn_options ==
            [i \in 1..Len(rxns) |->
                [score    |-> RxnScore(T, node, rxns[i], o.exploration_weight),
                 is_rxn   |-> TRUE,
                 rxn      |-> rxns[i],
                 template |-> 0]]
        unexplored == SelectSeq(keys, LAMBDA t : t \notin explored)
        template_options ==
            IF MayApplyTemplate(T, o, tgt, node) /\ unexplored # <<>>
            THEN << [score    |-> TemplateScore(T, node, Last(unexplored),
                                                o.exploration_weight),
                     is_rxn   |-> FALSE,
                     rxn      |-> <<>>,
                     template |-> Last(unexplored)] >>
            ELSE <<>>
    IN  rxn_options \o template_options

\* ucb(node, path, invalid_options, exploration_weight), before the sort:
\* an option is [score, is_rxn, rxn, template]
UcbOptions(T, o, tgt, node, path, invalid_options) ==
    LET data == T.chem[node]
        explored == Range(data.explored)
        keys == Keys(data.templates)
        rxns == SelectSeq(data.succ,
                    LAMBDA r : RxnIsOption(T, r, path, invalid_options))
        rxn_options ==
            [i \in 1..Len(rxns) |->
                [score    |-> RxnScore(T, node, rxns[i], o.exploration_weight),
                 is_rxn   |-> TRUE,
                 rxn      |-> rxns[i],
                 template |-> 0]]
        unexplored == SelectSeq(keys, LAMBDA t : t \notin explored)
        template_options ==
            IF MayApplyTemplate(T, o, tgt, node) /\ unexplored # <<>>
            THEN << [score    |-> TemplateScore(T, node, unexplored[1],
                                                o.exploration_weight),
                     is_rxn   |-> FALSE,
                     rxn      |-> <<>>,
                     template |-> unexplored[1]] >>
            ELSE <<>>
    IN  rxn_options \o template_options

\* A choice that takes the first option as ucb listed it, without the sort
FirstOption(options) == options[1]

\* options.sort(key=score, reverse=True)[0]: the sort is stable, so the best
\* option is the first one of maximal score
BestOption(options) ==
    LET i == CHOOSE j \in 1..Len(options) :
                /\ \A k \in 1..Len(options) : options[k].score <= options[j].score
                /\ \A k \in 1..(j - 1) : options[k].score < options[j].score
    IN  options[i]

\* min(candidates, key=visit_count, default=None): the first of minimal count;
\* the result is a sequence, empty for None
LowestVisit(T, candidates) ==
    IF candidates = <<>> THEN <<>>
    ELSE LET i == CHOOSE j \in 1..Len(candidates) :
                    /\ \A k \in 1..Len(candidates) :
                          T.chem[candidates[k]].visit_count
                              >= T.chem[candidates[j]].visit_count
                    /\ \A k \in 1..(j - 1) :
                          T.chem[candidates[k]].visit_count
                              > T.chem[candidates[j]].visit_count
         IN  <<candidates[i]>>

\* A descent that does not ask whether the precursor is done
PrecursorCandidatesDoneOrNot(T, task, invalid_options) ==
    SelectSeq(T.rxn[task].succ, LAMBDA c : c \notin invalid_options.chem)

\* The precursors of reaction task that _select may descend to
PrecursorCandidates(T, task, invalid_options) ==
    SelectSeq(T.rxn[task].succ,
              LAMBDA c : ~ is_chemical_done(T, c) /\ c \notin invalid_options.chem)

\* The while loop of _select. The result is [error, chem_path, rxn_path, template];
\* error is "IndexError" when `del rxn_path[-1]` meets an empty list.
RECURSIVE SelectLoop(_, _, _, _, _, _)
SelectLoop(T, o, tgt, cpath, rpath, invalid_options) ==
    LET leaf == Last(cpath)
        options == UcbOptions(T, o, tgt, leaf, cpath, invalid_options)
    IN  IF options = <<>>
        THEN IF rpath = <<>>
             THEN [error |-> "IndexError", chem_path |-> Front(cpath),
                   rxn_path |-> rpath, template |-> 0]
             ELSE SelectLoop(T, o, tgt, Front(cpath), Front(rpath),
                     [invalid_options EXCEPT !.chem = @ \cup {leaf}])
        ELSE LET best == BestOption(options)
             IN  IF best.is_rxn
                 THEN LET precursor ==
                              LowestVisit(T, PrecursorCandidates(T, best.rxn,
                                                                 invalid_options))
                      IN  IF precursor = <<>>
                          THEN SelectLoop(T, o, tgt, cpath, rpath,
                                  [invalid_options EXCEPT !.rxn = @ \cup {best.rxn}])
                          ELSE SelectLoop(T, o, tgt, Append(cpath, precursor[1]),
                                  Append(rpath, best.rxn), invalid_options)
                 ELSE [error |-> "", chem_path |-> cpath, rxn_path |-> rpath,
                       template |-> best.template]

\* _select()
select(T, o, tgt) == SelectLoop(T, o, tgt, <<tgt>>, <<>>, [chem |-> {}, rxn |-> {}])

-----------------------------------------------------------------------------
(* Expansion *)

Graph == [tree |-> tree, chemicals |-> chemicals, reactions |-> reactions]

\* A cycle check that looks at the selected path only, not at the graph
MakesCycleOnPath(T, reactant, leaf, path) == reactant \in Range(path)

\* Line 517: accepting this known chemical as a precursor of leaf closes a cycle
MakesCycle(T, reactant, leaf, path) ==
    reactant \in Range(path) \/ has_path(T, reactant, leaf)

\* A filter that knows the fast filter score only
RejectedByScore(o, reactant_list, leaf) ==
    FastFilter(reactant_list, leaf) < o.fast_filter_threshold

\* Lines 502-512: the candidate is dropped before any node is looked at
Rejected(o, reactant_list, leaf) ==
    \/ FastFilter(reactant_list, leaf) < o.fast_filter_threshold
    \/ Rxn(reactant_list, leaf) \in o.banned_reactions
    \/ \E i \in 1..Len(reactant_list) : reactant_list[i] \in o.banned_chemicals

\* Lines 514-522: the for loop over the reactants, from position i on.
\* The result is [G, broke]: broke is TRUE when the loop ended in `break`.
RECURSIVE VisitReactants(_, _, _, _, _, _, _)
VisitReactants(G, o, reactant_list, i, leaf, path, inputs) ==
    IF i > Len(reactant_list) THEN [G |-> G, broke |-> FALSE]
    ELSE LET reactant == reactant_list[i]
         IN  IF reactant \in Range(G.chemicals)
             THEN IF MakesCycle(G.tree, reactant, leaf, path)
                  THEN [G |-> G, broke |-> TRUE]
                  ELSE VisitReactants(G, o, reactant_list, i + 1, leaf, path, inputs)
             ELSE VisitReactants(
                      create_chemical_node(G, o, reactant, inputs[reactant].templates,
                                           inputs[reactant].price),
                      o, reactant_list, i + 1, leaf, path, inputs)

\* Lines 524-540: the else branch of the for loop
AttachReaction(G, o, reactant_list, leaf, tmpl) ==
    LET reaction_smiles == Rxn(reactant_list, leaf)
        ff_score == FastFilter(reactant_list, leaf)
        template_score == Relevance(G.tree.chem[leaf].templates, tmpl)
        G1 == IF reaction_smiles \in Range(G.reactions)
              THEN [G EXCEPT
                      !.tree.rxn[reaction_smiles].templates = Append(@, tmpl),
                      !.tree.rxn[reaction_smiles].template_score =
                          Max2(@, template_score)]
              ELSE create_reaction_node(G, reaction_smiles, tmpl, template_score,
                                        ff_score)
        T2 == AddEdgesRC(AddEdgeCR(G1.tree, leaf, reaction_smiles),
                         reaction_smiles, reactant_list)
    IN  [G1 EXCEPT !.tree = update_value(T2, reaction_smiles)]

\* One iteration of the loop of _process_precursors (lines 497-540)
process_one(G, o, reactant_list, leaf, tmpl, path, inputs) ==
    IF Rejected(o, reactant_list, leaf) THEN G
    ELSE LET v == VisitReactants(G, o, reactant_list, 1, leaf, path, inputs)
         IN  IF v.broke THEN v.G
             ELSE AttachReaction(v.G, o, reactant_list, leaf, tmpl)

\* The chemicals process_one creates for this reactant list
RECURSIVE CreatedFrom(_, _, _, _, _)
CreatedFrom(G, reactant_list, i, leaf, path) ==
    IF i > Len(reactant_list) THEN {}
    ELSE LET reactant == reactant_list[i]
         IN  IF reactant \in Range(G.chemicals)
             THEN IF MakesCycle(G.tree, reactant, leaf, path) THEN {}
                  ELSE CreatedFrom(G, reactant_list, i + 1, leaf, path)
             ELSE {reactant} \cup CreatedFrom(G, reactant_list, i + 1, leaf, path)

Created(G, o, reactant_list, leaf, path) ==
    IF Rejected(o, reactant_list, leaf) THEN {}
    ELSE CreatedFrom(G, reactant_list, 1, leaf, path)

\* The first reactant of the list at which the loop of lines 514-522 breaks,
\* as a sequence: empty when the loop runs to its end
RECURSIVE BreaksAt(_, _, _, _, _)
BreaksAt(G, reactant_list, i, leaf, path) ==
    IF i > Len(reactant_list) THEN <<>>
    ELSE IF /\ reactant_list[i] \in Range(G.chemicals)
            /\ MakesCycle(G.tree, reactant_list[i], leaf, path)
         THEN <<reactant_list[i]>>
    ELSE BreaksAt(G, reactant_list, i + 1, leaf, path)

\* How process_one ends for this reactant list: dropped by a filter, abandoned
\* on a cycle (through a chemical of the path, or through the graph only), or
\* attached to the graph
Verdict(G, o, reactant_list, leaf, path) ==
    IF Rejected(o, reactant_list, leaf) THEN "rejected"
    ELSE LET b == BreaksAt(G, reactant_list, 1, leaf, path)
         IN  IF b = <<>> THEN "added"
             ELSE IF b[1] \in Range(path) THEN "cycle_on_path"
             ELSE "cycle_in_graph"

\* Chemical names carry no meaning: a chemical not yet in the graph is named
\* by the next unused number
CanonicalNames(chems, reactant_list) ==
    \A i \in 1..Len(reactant_list) :
        reactant_list[i] \notin Range(chems) =>
            reactant_list[i] <= Len(chems) + 1
                + Cardinality({reactant_list[j] : j \in 1..(i - 1)} \ Range(chems))

-----------------------------------------------------------------------------
(* Path extraction *)

RECURSIVE Flatten(_)
Flatten(ss) == IF ss = <<>> THEN <<>> ELSE Head(ss) \o Flatten(Tail(ss))

\* itertools.product(*pools): the last pool varies fastest
RECURSIVE Product(_)
Product(pools) ==
    IF pools = <<>> THEN << <<>> >>
    ELSE LET rest == Product(Tail(pools))
             first == Head(pools)
         IN  Flatten([i \in 1..Len(first) |->
                        [j \in 1..Len(rest) |-> <<first[i]>> \o rest[j]]])

\* A node of an output tree: the attributes get_paths copies that the
\* validation, the ranking and the claims read
ChemNode(T, c, children) ==
    [type |-> "chemical", smiles |-> c, terminal |-> T.chem[c].terminal,
     children |-> children]

RxnNode(T, r, children) ==
    [type |-> "reaction", smiles |-> r, ff_score |-> T.rxn[r].ff_score,
     children |-> children]

RECURSIVE get_chem_paths(_, _, _, _)
RECURSIVE get_rxn_paths(_, _, _, _)

\* A generator that stops at chemicals without reactions only and follows the
\* graph below max_depth
get_chem_paths_any_depth(T, node, depth, max_depth) ==
    IF OutDegreeC(T, node) = 0
    THEN <<ChemNode(T, node, <<>>)>>
    ELSE LET succ == T.chem[node].succ
         IN  Flatten([i \in 1..Len(succ) |->
                LET subs == get_rxn_paths(T, succ[i], depth + 1, max_depth)
                IN  [j \in 1..Len(subs) |-> ChemNode(T, node, <<subs[j]>>)]])

\* get_chem_paths(_node, _uuid, _depth) and get_rxn_paths(_node, _uuid, _depth):
\* the sequence of trees the generator yields
get_chem_paths(T, node, depth, max_depth) ==
    IF OutDegreeC(T, node) = 0 \/ (max_depth # None /\ depth >= max_depth)
    THEN <<ChemNode(T, node, <<>>)>>
    ELSE LET succ == T.chem[node].succ
         IN  Flatten([i \in 1..Len(succ) |->
                LET subs == get_rxn_paths(T, succ[i], depth + 1, max_depth)
                IN  [j \in 1..Len(subs) |-> ChemNode(T, node, <<subs[j]>>)]])

get_rxn_paths(T, node, depth, max_depth) ==
    LET succ == T.rxn[node].succ
        combos == Product([i \in 1..Len(succ) |->
                              get_chem_paths(T, succ[i], depth, max_depth)])
    IN  [k \in 1..Len(combos) |-> RxnNode(T, node, combos[k])]

\* The leaves of an output tree: its nodes of out-degree 0
RECURSIVE Leaves(_)
Leaves(node) ==
    IF node.children = <<>> THEN <<node>>
    ELSE Flatten([i \in 1..Len(node.children) |-> Leaves(node.children[i])])

\* A validation that asks for one terminal leaf only
validate_some_leaf(path) ==
    LET leaves == Leaves(path)
    IN  \E i \in 1..Len(leaves) : leaves[i].terminal

\* _validate_path(_path): all leaves are terminal
validate_path(path) ==
    LET leaves == Leaves(path)
    IN  \A i \in 1..Len(leaves) : leaves[i].terminal

\* A loop of get_paths that counts every tree it looks at, validated or not
RECURSIVE TakePathsCountingAll(_, _, _, _)
TakePathsCountingAll(paths, max_trees, validate, num_paths) ==
    IF paths = <<>> THEN <<>>
    ELSE IF max_trees # None /\ num_paths >= max_trees THEN <<>>
    ELSE IF ~ validate \/ validate_path(Head(paths))
         THEN <<Head(paths)>> \o TakePathsCountingAll(Tail(paths), max_trees, validate, num_paths + 1)
         ELSE TakePathsCountingAll(Tail(paths), max_trees, validate, num_paths + 1)

\* The loop of get_paths (lines 753-759) over the trees not yet looked at
RECURSIVE TakePaths(_, _, _, _)
TakePaths(paths, max_trees, validate, num_paths) ==
    IF paths = <<>> THEN <<>>
    ELSE IF max_trees # None /\ num_paths >= max_trees THEN <<>>
    ELSE IF ~ validate \/ validate_path(Head(paths))
         THEN <<Head(paths)>> \o TakePaths(Tail(paths), max_trees, validate,
                                          num_paths + 1)
         ELSE TakePaths(Tail(paths), max_trees, validate, num_paths)

\* get_paths(tree, root, max_depth, max_trees, validation_fn)
get_paths(T, root, max_depth, max_trees, validate) ==
    TakePaths(get_chem_paths(T, root, 0, max_depth), max_trees, validate, 0)

\* The reaction nodes of an output tree
RECURSIVE RxnNodes(_)
RxnNodes(node) ==
    (IF node.type = "reaction" THEN <<node>> ELSE <<>>)
    \o Flatten([i \in 1..Len(node.children) |-> RxnNodes(node.children[i])])

RECURSIVE ProdSeq(_)
ProdSeq(s) == IF s = <<>> THEN 1 ELSE s[1] * ProdSeq(Tail(s))

RECURSIVE Power(_, _)
Power(b, e) == IF e = 0 THEN 1 ELSE b * Power(b, e - 1)

\* Reactions one output tree holds, at most
MaxTreeRxns == 4

\* overall_plausibility(tree): the product of the ff_score of the reactions.
\* An ff_score is a number of twentieths, so the product of n of them is
\* scaled by 20^(MaxTreeRxns - n) to compare products of different length.
overall_plausibility(path) ==
    LET rxns == RxnNodes(path)
    IN  ProdSeq([i \in 1..Len(rxns) |-> rxns[i].ff_score])
            * Power(20, MaxTreeRxns - Len(rxns))

\* number_of_starting_materials(tree)
number_of_starting_materials(path) == Len(Leaves(path))

\* Reactions on the longest root-to-leaf chain of an output tree
RECURSIVE number_of_reactions(_)
number_of_reactions(node) ==
    LET below == [i \in 1..Len(node.children) |->
                     number_of_reactions(node.children[i])]
        deepest == IF below = <<>> THEN 0
                   ELSE CHOOSE m \in Range(below) : \A x \in Range(below) : x <= m
    IN  deepest + (IF node.type = "reaction" THEN 1 ELSE 0)

\* sorted(keyed): Python's sort is stable; an entry <<key, path>> is put
\* after the entries whose key is not larger
RECURSIVE InsertSorted(_, _)
InsertSorted(sorted, x) ==
    IF sorted = <<>> THEN <<x>>
    ELSE IF x[1] < Head(sorted)[1] THEN <<x>> \o sorted
    ELSE <<Head(sorted)>> \o InsertSorted(Tail(sorted), x)

RECURSIVE SortedByKey(_)
SortedByKey(keyed) ==
    IF keyed = <<>> THEN <<>>
    ELSE InsertSorted(SortedByKey(Front(keyed)), Last(keyed))

\* The key of a sort that forgets reverse=True for the plausibility
SortKeyAscending(path, metric) ==
    IF metric = "plausibility" THEN overall_plausibility(path)
    ELSE IF metric = "number_of_starting_materials"
         THEN number_of_starting_materials(path)
    ELSE number_of_reactions(path)

\* The key sort_paths sorts by, ascending; reverse=True keeps the sort stable
\* and is the ascending sort by the negated key
SortKey(path, metric) ==
    IF metric = "plausibility" THEN 0 - overall_plausibility(path)
    ELSE IF metric = "number_of_starting_materials"
         THEN number_of_starting_materials(path)
    ELSE number_of_reactions(path)

SortingMetrics == {"plausibility", "number_of_starting_materials",
                   "number_of_reactions"}

\* sort_paths(paths, metric) for a metric it knows
sort_paths(paths, metric) ==
    LET sorted == SortedByKey([i \in 1..Len(paths) |->
                                  <<SortKey(paths[i], metric), paths[i]>>])
    IN  [i \in 1..Len(sorted) |-> sorted[i][2]]

\* A retrieve_template_data that puts the template data in place of the
\* template ids of the reaction node
retrieve_template_data_in_place(T, rxns) ==
    [T EXCEPT !.rxn = [r \in DOMAIN T.rxn |->
        IF r \in Range(rxns)
        THEN [T.rxn[r] EXCEPT !.tforms = T.rxn[r].templates, !.templates = <<>>]
        ELSE T.rxn[r]]]

\* retrieve_template_data(): every reaction node gets its template data
retrieve_template_data(T, rxns) ==
    [T EXCEPT !.rxn = [r \in DOMAIN T.rxn |->
        IF r \in Range(rxns) THEN [T.rxn[r] EXCEPT !.tforms = T.rxn[r].templates]
        ELSE T.rxn[r]]]

\* An optional argument or the option: `max_depth or self.max_depth`
OrElse(arg, option) == IF Truthy(arg) THEN arg ELSE option

\* An enumerate_paths that takes every format but 'graph' for 'json'
enumerate_paths_any_format(T, o, tgt, path_format, sorting_metric, validate_paths, max_depth, max_trees) ==
    LET paths == get_paths(T, tgt, OrElse(max_depth, o.max_depth),
                           OrElse(max_trees, o.max_trees), validate_paths)
    IN  IF sorting_metric \notin SortingMetrics
        THEN [status |-> "ValueError", paths |-> <<>>,
              message |-> <<"Need something to sort by! Invalid option provided: ",
                            sorting_metric>>]
        ELSE IF tgt \notin DOMAIN T.chem
        THEN [status |-> "NetworkXError", paths |-> <<>>, message |-> <<>>]
        ELSE LET sorted == sort_paths(paths, sorting_metric)
             IN  IF path_format = "graph"
                 THEN [status |-> "ok", paths |-> sorted, message |-> <<>>]
                 ELSE IF sorted = <<>>
                      THEN [status |-> "IndexError", paths |-> <<>>,
                            message |-> <<>>]
                      ELSE [status |-> "ok", paths |-> sorted, message |-> <<>>]

\* enumerate_paths(path_format, sorting_metric, validate_paths, max_depth,
\* max_trees) after retrieve_template_data: [status, paths, message]; message is
\* the text of a ValueError, the format string and the value it is filled with.
\* sort_paths raises on an unknown metric before it reads the trees, and reads
\* them (networkx raises on a root that is no node) before the format is looked at.
enumerate_paths(T, o, tgt, path_format, sorting_metric, validate_paths, max_depth, max_trees) ==
    LET paths == get_paths(T, tgt, OrElse(max_depth, o.max_depth),
                           OrElse(max_trees, o.max_trees), validate_paths)
    IN  IF sorting_metric \notin SortingMetrics
        THEN [status |-> "ValueError", paths |-> <<>>,
              message |-> <<"Need something to sort by! Invalid option provided: ",
                            sorting_metric>>]
        ELSE IF tgt \notin DOMAIN T.chem
        THEN [status |-> "NetworkXError", paths |-> <<>>, message |-> <<>>]
        ELSE LET sorted == sort_paths(paths, sorting_metric)
             IN  IF path_format = "graph"
                 THEN [status |-> "ok", paths |-> sorted, message |-> <<>>]
                 ELSE IF path_format = "json"
                      THEN IF sorted = <<>>
                           THEN [status |-> "IndexError", paths |-> <<>>,
                                 message |-> <<>>]
                           ELSE [status |-> "ok", paths |-> sorted,
                                 message |-> <<>>]
                 ELSE [status |-> "ValueError", paths |-> <<>>,
                       message |-> <<"Unrecognized format type ", path_format>>]

-----------------------------------------------------------------------------
(* The state machine *)

\* TemplateTransformer.__init__: lines 24-33 of template_transformer.py
NewTransformer == [templates |-> <<>>, id_to_index |-> <<>>]

NoOutput == [status |-> "none", paths |-> <<>>, path_format |-> "",
             sorting_metric |-> "", validate_paths |-> FALSE]

\* No precursor set has been handled in this expansion
NoneProcessed == "none"

Init ==
    /\ pc = "idle"
    /\ opts = DefaultOptions
    /\ target = 0
    /\ chemicals = <<>>
    /\ reactions = <<>>
    /\ tree = EmptyTree
    /\ iterations = 0
    /\ time_to_solve = 0
    /\ chem_path = <<>>
    /\ rxn_path = <<>>
    /\ template = 0
    /\ precursors = <<>>
    /\ upd = 0
    /\ applied = <<>>
    /\ timed_out = FALSE
    /\ processed = NoneProcessed
    /\ output = NoOutput
    /\ transformer = NewTransformer

\* An initialisation that resets terminal and solved and forgets done
initialize_keeps_done(G, o, smiles, input) ==
    LET G1 == create_chemical_node(G, o, smiles, input.templates, input.price)
    IN  [G1 EXCEPT !.tree.chem[smiles].terminal = FALSE,
                   !.tree.chem[smiles].solved = FALSE]

\* An initialisation that keeps the flags create_chemical_node computed
initialize_keeps_flags(G, o, smiles, input) ==
    create_chemical_node(G, o, smiles, input.templates, input.price)

\* _initialize(target): lines 266-274
initialize(G, o, smiles, input) ==
    LET G1 == create_chemical_node(G, o, smiles, input.templates, input.price)
    IN  [G1 EXCEPT !.tree.chem[smiles].terminal = FALSE,
                   !.tree.chem[smiles].done = FALSE,
                   !.tree.chem[smiles].solved = FALSE]

\* build_tree(target, **kwargs) up to the loop: set_options and _initialize,
\* the keyword arguments taken from option_sets
BuildTreeWith(option_sets) ==
    /\ pc = "idle"
    /\ \E o \in option_sets, input \in TargetInputs :
          LET G1 == initialize(Graph, o, 1, input)
          IN  /\ opts' = o
              /\ target' = 1
              /\ tree' = G1.tree
              /\ chemicals' = G1.chemicals
              /\ reactions' = G1.reactions
    /\ pc' = "loop"
    /\ UNCHANGED <<transformer, iterations, time_to_solve, chem_path, rxn_path, template,
                   precursors, upd, applied, timed_out, output,
                   processed>>

BuildTree == BuildTreeWith(OptionSets)

\* A loop condition that looks at the budgets only, not at the root
done_by_budget(T, o, tgt, iters, chems, rxns) ==
    \/ (o.max_iterations # None /\ iters >= o.max_iterations)
    \/ (o.max_chemicals # None /\ Len(chems) >= o.max_chemicals)
    \/ (o.max_reactions # None /\ Len(rxns) >= o.max_reactions)

\* The property MCTS.done (lines 87-97)
done(T, o, tgt, iters, chems, rxns) ==
    \/ is_chemical_done(T, tgt)
    \/ (o.max_iterations # None /\ iters >= o.max_iterations)
    \/ (o.max_chemicals # None /\ Len(chems) >= o.max_chemicals)
    \/ (o.max_reactions # None /\ Len(rxns) >= o.max_reactions)

Done == done(tree, opts, target, iterations, chemicals, reactions)

\* The loop condition holds (line 211): _rollout starts with _select. An
\* IndexError raised by _select ends build_tree.
StartRollout ==
    /\ pc = "loop"
    /\ iterations < MaxRollouts
    /\ ~ Done
    /\ LET sel == select(tree, opts, target)
       IN  /\ chem_path' = sel.chem_path
           /\ rxn_path' = sel.rxn_path
           /\ template' = sel.template
           /\ pc' = IF sel.error = "" THEN "expand" ELSE sel.error
    /\ UNCHANGED <<transformer, opts, target, chemicals, reactions, tree, iterations,
                   time_to_solve, precursors, upd, applied, timed_out, output,
                   processed>>

\* The loop condition fails because the root is done or a budget is met
LoopDone ==
    /\ pc = "loop"
    /\ Done
    /\ pc' = "finished"
    /\ UNCHANGED <<transformer, opts, target, chemicals, reactions, tree, iterations,
                   time_to_solve, chem_path, rxn_path, template, precursors, upd,
                   applied, timed_out, output,
                   processed>>

\* The loop condition fails because elapsed_time >= expansion_time
LoopTimeUp ==
    /\ pc = "loop"
    /\ ~ Done
    /\ pc' = "finished"
    /\ timed_out' = TRUE
    /\ UNCHANGED <<transformer, opts, target, chemicals, reactions, tree, iterations,
                   time_to_solve, chem_path, rxn_path, template, precursors, upd,
                   applied, output,
                   processed>>

\* _expand(chem_path, template) up to the call of _process_precursors;
\* _get_precursors returns precursor sets of the sizes chosen here
Expand ==
    /\ pc = "expand"
    /\ LET leaf == Last(chem_path)
       IN  IF template \notin Range(tree.chem[leaf].explored)
           THEN /\ tree' = [tree EXCEPT !.chem[leaf].explored = Append(@, template)]
                /\ applied' = Append(applied, <<leaf, template>>)
                /\ \E shape \in OutcomeShapes : precursors' = shape
           ELSE /\ precursors' = <<>>
                /\ UNCHANGED <<tree, applied>>
    /\ pc' = "process"
    /\ processed' = NoneProcessed
    /\ UNCHANGED <<transformer, opts, target, chemicals, reactions, iterations, time_to_solve,
                   chem_path, rxn_path, template, upd, timed_out, output>>

\* One iteration of the loop of _process_precursors
ProcessPrecursors ==
    /\ pc = "process"
    /\ precursors # <<>>
    /\ \E reactant_list \in ReactantLists :
          /\ Len(reactant_list) = Head(precursors)
          /\ CanonicalNames(chemicals, reactant_list)
          /\ LET leaf == Last(chem_path)
             IN  \E inputs \in [Created(Graph, opts, reactant_list, leaf, chem_path)
                                  -> ChemInputs] :
                    LET G1 == process_one(Graph, opts, reactant_list, leaf, template,
                                          chem_path, inputs)
                    IN  /\ tree' = G1.tree
                        /\ chemicals' = G1.chemicals
                        /\ reactions' = G1.reactions
                        /\ processed' = Verdict(Graph, opts, reactant_list, leaf,
                                                chem_path)
    /\ precursors' = Tail(precursors)
    /\ UNCHANGED <<transformer, pc, opts, target, iterations, time_to_solve, chem_path, rxn_path,
                   template, upd, applied, timed_out, output>>

\* An _expand after which _update is not run when no precursor set was handled
StartUpdateUnlessEmpty ==
    /\ pc = "process"
    /\ precursors = <<>>
    /\ pc' = "update"
    /\ upd' = IF processed = NoneProcessed THEN 0 ELSE Len(chem_path)
    /\ processed' = NoneProcessed
    /\ UNCHANGED <<transformer, opts, target, chemicals, reactions, tree, iterations,
                   time_to_solve, chem_path, rxn_path, template, precursors, applied,
                   timed_out, output>>

\* _expand returns and _update starts at the leaf
StartUpdate ==
    /\ pc = "process"
    /\ precursors = <<>>
    /\ pc' = "update"
    /\ upd' = Len(chem_path)
    /\ processed' = NoneProcessed
    /\ UNCHANGED <<transformer, opts, target, chemicals, reactions, tree, iterations,
                   time_to_solve, chem_path, rxn_path, template, precursors, applied,
                   timed_out, output>>

\* An update that records the depth of the latest visit, not the smallest
update_one_latest_depth(T, o, cpath, rpath, k) ==
    LET chem == cpath[k]
        i == k - 1
        T1 == [T EXCEPT !.chem[chem].visit_count = @ + 1,
                        !.chem[chem].min_depth = i]
        T2 == UpdateDone(T1, o, chem)
    IN  IF k > 1
        THEN LET rxn == rpath[k - 1]
             IN  update_value([T2 EXCEPT !.rxn[rxn].visit_count = @ + 1], rxn)
        ELSE T2

\* An update that pairs the chemical at index i with the reaction at index i
\* of the reaction path, the one that leads on from it
update_one_misaligned(T, o, cpath, rpath, k) ==
    LET chem == cpath[k]
        i == k - 1
        old == T.chem[chem].min_depth
        T1 == [T EXCEPT !.chem[chem].visit_count = @ + 1,
                        !.chem[chem].min_depth =
                            IF old # None THEN Min2(old, i) ELSE i]
        T2 == UpdateDone(T1, o, chem)
    IN  IF k <= Len(rpath)
        THEN LET rxn == rpath[k]
             IN  update_value([T2 EXCEPT !.rxn[rxn].visit_count = @ + 1], rxn)
        ELSE T2

\* One iteration of the loop of _update (lines 314-322) for the chemical at
\* index i of the path and its parent reaction
update_one(T, o, cpath, rpath, k) ==
    LET chem == cpath[k]
        i == k - 1
        old == T.chem[chem].min_depth
        T1 == [T EXCEPT !.chem[chem].visit_count = @ + 1,
                        !.chem[chem].min_depth =
                            IF old # None THEN Min2(old, i) ELSE i]
        T2 == UpdateDone(T1, o, chem)
    IN  IF k > 1
        THEN LET rxn == rpath[k - 1]
             IN  update_value([T2 EXCEPT !.rxn[rxn].visit_count = @ + 1], rxn)
        ELSE T2

UpdateStep ==
    /\ pc = "update"
    /\ upd > 0
    /\ tree' = update_one(tree, opts, chem_path, rxn_path, upd)
    /\ upd' = upd - 1
    /\ UNCHANGED <<transformer, pc, opts, target, chemicals, reactions, iterations, time_to_solve,
                   chem_path, rxn_path, template, precursors, applied, timed_out,
                   output,
                   processed>>

\* _rollout returns: lines 214-225 of build_tree
EndRollout ==
    /\ pc = "update"
    /\ upd = 0
    /\ iterations' = iterations + 1
    /\ IF time_to_solve = 0 /\ tree.chem[target].solved
       THEN /\ time_to_solve' = iterations + 1
            /\ pc' = IF opts.return_first THEN "finished" ELSE "loop"
       ELSE /\ pc' = "loop"
            /\ UNCHANGED time_to_solve
    /\ UNCHANGED <<transformer, opts, target, chemicals, reactions, tree, chem_path, rxn_path,
                   template, precursors, upd, applied, timed_out, output,
                   processed>>

\* The arguments enumerate_paths is called with in this model
PathFormats == {"json", "graph"}

\* enumerate_paths(**kwargs) on the built tree
EnumeratePaths ==
    /\ pc = "finished"
    /\ \E path_format \in PathFormats, validate_paths \in BOOLEAN :
          LET T1 == retrieve_template_data(tree, reactions)
              res == enumerate_paths(T1, opts, target, path_format, "plausibility",
                                     validate_paths, None, None)
          IN  /\ tree' = T1
              /\ output' = [status |-> res.status, paths |-> res.paths,
                            path_format |-> path_format,
                            sorting_metric |-> "plausibility",
                            validate_paths |-> validate_paths]
    /\ pc' = "enumerated"
    /\ UNCHANGED <<transformer, opts, target, chemicals, reactions, iterations, time_to_solve,
                   chem_path, rxn_path, template, precursors, upd, applied,
                   timed_out,
                   processed>>

Next ==
    \/ BuildTree
    \/ StartRollout
    \/ LoopDone
    \/ LoopTimeUp
    \/ Expand
    \/ ProcessPrecursors
    \/ StartUpdate
    \/ UpdateStep
    \/ EndRollout
    \/ EnumeratePaths

Spec == Init /\ [][Next]_vars

\* build_tree called with banned chemicals or reactions
BuildTreeBanned == BuildTreeWith(BannedOptionSets)

NextBanned ==
    \/ BuildTreeBanned
    \/ StartRollout
    \/ LoopDone
    \/ LoopTimeUp
    \/ Expand
    \/ ProcessPrecursors
    \/ StartUpdate
    \/ UpdateStep
    \/ EndRollout
    \/ EnumeratePaths

SpecBanned == Init /\ [][NextBanned]_vars

\* build_tree called with a budget or with return_first
BuildTreeBudget == BuildTreeWith(BudgetOptionSets)

NextBudget ==
    \/ BuildTreeBudget
    \/ StartRollout
    \/ LoopDone
    \/ LoopTimeUp
    \/ Expand
    \/ ProcessPrecursors
    \/ StartUpdate
    \/ UpdateStep
    \/ EndRollout
    \/ EnumeratePaths

SpecBudget == Init /\ [][NextBudget]_vars

\* clear() is called on an instance that ran this many rollouts at most
MaxReuseAt == 1

\* build_tree on an instance that may have been used and cleared before
BuildTreeAgain == BuildTreeWith(ReuseOptionSets)

\* clear() after build_tree, enumerate_paths or load_tree has returned: the graph
\* and both lists are emptied, iterations and time_to_solve stay; what the
\* calls that returned left behind is forgotten
Clear ==
    /\ pc \in {"finished", "enumerated", "loaded"}
    /\ iterations <= MaxReuseAt
    /\ tree' = EmptyTree
    /\ chemicals' = <<>>
    /\ reactions' = <<>>
    /\ pc' = "idle"
    /\ chem_path' = <<>>
    /\ rxn_path' = <<>>
    /\ template' = 0
    /\ applied' = <<>>
    /\ timed_out' = FALSE
    /\ output' = NoOutput
    /\ UNCHANGED <<transformer, opts, target, iterations, time_to_solve, precursors, upd,
                   processed>>

NextReuse ==
    \/ BuildTreeAgain
    \/ StartRollout
    \/ LoopDone
    \/ LoopTimeUp
    \/ Expand
    \/ ProcessPrecursors
    \/ StartUpdate
    \/ UpdateStep
    \/ EndRollout
    \/ EnumeratePaths
    \/ Clear

SpecReuse == Init /\ [][NextReuse]_vars

-----------------------------------------------------------------------------
(* Sequences of build_tree, clear and load_tree calls on one instance *)

\* The graphs load_tree is given in this model, as dump_tree wrote them: the
\* empty graph, and the graph of an instance after _initialize
DumpedTrees ==
    {EmptyTree} \cup
    {initialize([tree |-> EmptyTree, chemicals |-> <<>>, reactions |-> <<>>],
                DefaultOptions, 1, input).tree : input \in TargetInputs}

\* load_tree(data), lines 260-264: the graph is replaced, nothing else is
LoadTree ==
    /\ pc \in {"idle", "finished", "enumerated"}
    /\ iterations <= MaxReuseAt
    /\ \E data \in DumpedTrees : tree' = data
    /\ pc' = "loaded"
    /\ chem_path' = <<>>
    /\ rxn_path' = <<>>
    /\ template' = 0
    /\ applied' = <<>>
    /\ timed_out' = FALSE
    /\ output' = NoOutput
    /\ UNCHANGED <<transformer, opts, target, chemicals, reactions, iterations,
                   time_to_solve, precursors, upd, processed>>

\* Keyword arguments of a build on an instance that was not cleared
RebuildOptionSets == {[DefaultOptions EXCEPT !.max_iterations = 2]}

\* build_tree is called on an instance that was not cleared while its list of
\* chemicals holds fewer repeated entries than this
MaxRepeats == 1

\* build_tree on an instance that was built or loaded before and not cleared
\* since; after load_tree, when the lists name nodes of the loaded graph only.
\* predict and the pricer return for the target what they returned before.
BuildTreeOver ==
    /\ \/ pc \in {"finished", "enumerated"}
       \/ /\ pc = "loaded"
          /\ Range(chemicals) \subseteq DOMAIN tree.chem
          /\ Range(reactions) \subseteq DOMAIN tree.rxn
    /\ iterations <= MaxReuseAt
    /\ Len(chemicals) - Cardinality(Range(chemicals)) < MaxRepeats
    /\ \E o \in RebuildOptionSets, input \in TargetInputs :
          LET G1 == initialize(Graph, o, 1, input)
          IN  /\ 1 \in DOMAIN tree.chem =>
                    /\ input.templates = tree.chem[1].templates
                    /\ input.price = tree.chem[1].purchase_price
              /\ opts' = o
              /\ target' = 1
              /\ tree' = G1.tree
              /\ chemicals' = G1.chemicals
              /\ reactions' = G1.reactions
    /\ pc' = "loop"
    /\ chem_path' = <<>>
    /\ rxn_path' = <<>>
    /\ template' = 0
    /\ applied' = <<>>
    /\ timed_out' = FALSE
    /\ output' = NoOutput
    /\ UNCHANGED <<transformer, iterations, time_to_solve, precursors, upd, processed>>

NextCalls ==
    \/ BuildTreeAgain
    \/ BuildTreeOver
    \/ StartRollout
    \/ LoopDone
    \/ LoopTimeUp
    \/ Expand
    \/ ProcessPrecursors
    \/ StartUpdate
    \/ UpdateStep
    \/ EndRollout
    \/ EnumeratePaths
    \/ Clear
    \/ LoadTree

SpecCalls == Init /\ [][NextCalls]_vars

-----------------------------------------------------------------------------
(* Calls of is_terminal on an instance with its termination options *)

\* An instance whose options hold the terminal node criteria
InitTerminal ==
    /\ pc = "idle"
    /\ opts \in TerminalOptionSets
    /\ target = 0
    /\ chemicals = <<>>
    /\ reactions = <<>>
    /\ tree = EmptyTree
    /\ iterations = 0
    /\ time_to_solve = 0
    /\ chem_path = <<>>
    /\ rxn_path = <<>>
    /\ template = 0
    /\ precursors = <<>>
    /\ upd = 0
    /\ applied = <<>>
    /\ timed_out = FALSE
    /\ processed = NoneProcessed
    /\ output = NoOutput
    /\ transformer = NewTransformer

\* is_terminal is called and returns
CallIsTerminal ==
    /\ pc = "idle"
    /\ \E in \in TerminalInputs :
          output' = [status |-> "is_terminal", in |-> in,
                     result |-> is_terminal_with(opts, in)]
    /\ pc' = "returned"
    /\ UNCHANGED <<transformer, opts, target, chemicals, reactions, tree, iterations,
                   time_to_solve, chem_path, rxn_path, template, precursors, upd,
                   applied, timed_out, processed>>

NextTerminal == CallIsTerminal

SpecTerminal == InitTerminal /\ [][NextTerminal]_vars

\* build_tree called with a cap on the number of trees
PathsOptionSets == {[DefaultOptions EXCEPT !.max_trees = 2]}

BuildTreePaths == BuildTreeWith(PathsOptionSets)

\* The keyword arguments of enumerate_paths (lines 662-664): the known and an
\* unknown path format and sorting metric, validation on and off, a cap on the
\* number of trees (0 is falsy in `max_trees or self.max_trees`) or none
EnumerateArgs ==
    [path_format : {"graph"}, sorting_metric : {"plausibility"},
     validate_paths : BOOLEAN, max_trees : {None, 0, 1}]
    \cup [path_format : {"json", "graph", "xml"},
          sorting_metric : {"plausibility", "price"},
          validate_paths : BOOLEAN, max_trees : {None}]

\* enumerate_paths(**kwargs) with every keyword argument, on the built tree or
\* before any build_tree
EnumeratePathsWith ==
    /\ pc \in {"idle", "finished"}
    /\ \E args \in EnumerateArgs :
          LET T1 == retrieve_template_data(tree, reactions)
              res == enumerate_paths(T1, opts, target, args.path_format,
                                     args.sorting_metric, args.validate_paths,
                                     None, args.max_trees)
          IN  /\ tree' = T1
              /\ output' = [status |-> res.status, paths |-> res.paths,
                            path_format |-> args.path_format,
                            sorting_metric |-> args.sorting_metric,
                            validate_paths |-> args.validate_paths,
                            max_trees |-> args.max_trees,
                            message |-> res.message]
    /\ pc' = IF pc = "idle" THEN "raised" ELSE "enumerated"
    /\ UNCHANGED <<transformer, opts, target, chemicals, reactions, iterations, time_to_solve,
                   chem_path, rxn_path, template, precursors, upd, applied,
                   timed_out, processed>>

NextPaths ==
    \/ BuildTreePaths
    \/ StartRollout
    \/ LoopDone
    \/ LoopTimeUp
    \/ Expand
    \/ ProcessPrecursors
    \/ StartUpdate
    \/ UpdateStep
    \/ EndRollout
    \/ EnumeratePathsWith

SpecPaths == Init /\ [][NextPaths]_vars

-----------------------------------------------------------------------------
(* TemplateTransformer (interfaces/template_transformer.py), load_all False: *)
(* the templates are kept as the documents of the file. A document is       *)
(* [id, template_set]; id None is a document without '_id'.                  *)

TemplateDocs == [id : {None, 0, 5}, template_set : {"reaxys", "pistachio"}]

\* A file of dumped templates holds at most this many documents
MaxFileLen == 2

\* The paths load_from_file may be given: a file of documents, or no file
NoFile == [isfile |-> FALSE, docs |-> <<>>]

TemplateFiles ==
    {NoFile} \cup [isfile : {TRUE}, docs : UNION {[1..n -> TemplateDocs] : n \in 0..MaxFileLen}]

\* template_set=None of load_from_file
NoTemplateSet == "None"

\* The loop of load_from_file (lines 164-170) from the i-th template on; the
\* index n of the code counts from 0
RECURSIVE IndexTemplates(_, _)
IndexTemplates(self, i) ==
    IF i > Len(self.templates) THEN self
    ELSE LET n == i - 1
             id == IF self.templates[i].id = None THEN n ELSE self.templates[i].id
             index == [x \in DOMAIN self.id_to_index \cup {id} |->
                          IF x = id THEN n ELSE self.id_to_index[x]]
         IN  IndexTemplates([templates |-> [self.templates EXCEPT ![i].id = id],
                             id_to_index |-> index], i + 1)

\* Filter of load_from_file (line 162)
InTemplateSet(docs, template_set) ==
    LET RECURSIVE Keep(_)
        Keep(s) == IF s = <<>> THEN <<>>
                   ELSE (IF Head(s).template_set = template_set THEN <<Head(s)>> ELSE <<>>)
                        \o Keep(Tail(s))
    IN  Keep(docs)

\* load_from_file(file_path, template_set): [status, self]
load_from_file(self, file, template_set) ==
    IF ~ file.isfile THEN [status |-> "IOError", self |-> self]
    ELSE LET read == IF template_set # NoTemplateSet /\ template_set # "all"
                     THEN InTemplateSet(file.docs, template_set)
                     ELSE file.docs
         IN  [status |-> "ok",
              self |-> IndexTemplates([self EXCEPT !.templates = read], 1)]

\* A lookup without the check that templates are loaded
lookup_id_unchecked(self, template_id) ==
    IF template_id \notin DOMAIN self.id_to_index
    THEN [status |-> "KeyError", value |-> None, self |-> self]
    ELSE [status |-> "ok", self |-> self,
          value |-> self.templates[self.id_to_index[template_id] + 1]]

\* lookup_id(template_id): [status, value, self]
lookup_id(self, template_id) ==
    IF self.templates = <<>>
    THEN [status |-> "ValueError", value |-> None, self |-> self]
    ELSE IF template_id \notin DOMAIN self.id_to_index
    THEN [status |-> "KeyError", value |-> None, self |-> self]
    ELSE [status |-> "ok", self |-> self,
          value |-> self.templates[self.id_to_index[template_id] + 1]]

\* dump_to_file(retro, file_path, chiral): [status, value, self]; value is what
\* is written. json.dump writes text to a file opened 'wb': text_is_bytes
\* tells whether the interpreter takes that (it raises TypeError if not).
dump_to_file(self, text_is_bytes) ==
    IF self.templates = <<>>
    THEN [status |-> "ValueError", value |-> None, self |-> self]
    ELSE IF text_is_bytes
    THEN [status |-> "ok", value |-> self.templates, self |-> self]
    ELSE [status |-> "TypeError", value |-> None, self |-> self]

\* load_from_file is called on the new transformer
LoadFromFile ==
    /\ pc = "idle"
    /\ output = NoOutput
    /\ \E file \in TemplateFiles, template_set \in {NoTemplateSet, "all", "reaxys"} :
          LET res == load_from_file(transformer, file, template_set)
          IN  /\ transformer' = res.self
              /\ output' = [status |-> res.status, call |-> "load_from_file"]
    /\ UNCHANGED <<pc, opts, target, chemicals, reactions, tree, iterations,
                   time_to_solve, chem_path, rxn_path, template, precursors, upd,
                   applied, timed_out, processed>>

\* lookup_id is called, templates loaded or not
LookupId ==
    /\ pc = "idle"
    /\ \E template_id \in {0, 1, 5} :
          LET res == lookup_id(transformer, template_id)
          IN  /\ transformer' = res.self
              /\ output' = [status |-> res.status, call |-> "lookup_id",
                            template_id |-> template_id, value |-> res.value]
    /\ pc' = "returned"
    /\ UNCHANGED <<opts, target, chemicals, reactions, tree, iterations,
                   time_to_solve, chem_path, rxn_path, template, precursors, upd,
                   applied, timed_out, processed>>

\* dump_to_file is called, templates loaded or not
DumpToFile ==
    /\ pc = "idle"
    /\ \E text_is_bytes \in BOOLEAN :
          LET res == dump_to_file(transformer, text_is_bytes)
          IN  /\ transformer' = res.self
              /\ output' = [status |-> res.status, call |-> "dump_to_file",
                            value |-> res.value]
    /\ pc' = "returned"
    /\ UNCHANGED <<opts, target, chemicals, reactions, tree, iterations,
                   time_to_solve, chem_path, rxn_path, template, precursors, upd,
                   applied, timed_out, processed>>

\* Operations called on new objects: enumerate_paths on the MCTS before any
\* build_tree, lookup_id and dump_to_file on the transformer before or after
\* load_from_file
NextUnprepared ==
    \/ EnumeratePathsWith
    \/ LoadFromFile
    \/ LookupId
    \/ DumpToFile

SpecUnprepared == Init /\ [][NextUnprepared]_vars

-----------------------------------------------------------------------------
(* RelevanceTemplatePrioritizer.predict (templates/relevance.py). The model  *)
(* output of a template is given by its weight exp(score), a positive       *)
(* integer: the order of the weights is the order of the scores, and the     *)
(* softmax of the kept scores is weight / sum of the kept weights.           *)
(* max_cum_prob is a per-mille integer.                                      *)

\* The model scores at most this many templates
MaxTemplates == 3

\* exp(score) is at most this
MaxWeight == 3

ScoreVectors == UNION {[1..n -> 1..MaxWeight] : n \in 1..MaxTemplates}

CumProbs == {500, 900, 1000}

\* np.argsort(-scores)[:max_num_templates]: positions counted from 0, the
\* larger score first, equal scores in the order of their position
top_indices(weights, max_num_templates) ==
    LET keyed == [i \in 1..Len(weights) |-> <<0 - weights[i], i - 1>>]
        sorted == SortedByKey(keyed)
        indices == [i \in 1..Len(sorted) |-> sorted[i][2]]
    IN  SubSeq(indices, 1, Min2(max_num_templates, Len(indices)))

\* np.cumsum(scores)[i] > max_cum_prob for the softmax of the kept weights
CumExceeds(kept, i, max_cum_prob) ==
    SumSeq(SubSeq(kept, 1, i)) * 1000 > max_cum_prob * SumSeq(kept)

\* np.argmax(np.cumsum(scores) > max_cum_prob): the position, counted from 0,
\* of the first True, and 0 when there is none
argmax_exceeds(kept, max_cum_prob) ==
    LET exceeding == {i \in 1..Len(kept) : CumExceeds(kept, i, max_cum_prob)}
    IN  IF exceeding = {} THEN 0
        ELSE (CHOOSE i \in exceeding : \A j \in exceeding : i <= j) - 1

\* predict(smiles, max_num_templates, max_cum_prob) on the model output
\* weights: [scores, indices], a score being <<weight, sum of kept weights>>
predict(weights, max_num_templates, max_cum_prob) ==
    LET indices == top_indices(weights, max_num_templates)
        kept == [i \in 1..Len(indices) |-> weights[indices[i] + 1]]
        truncate == argmax_exceeds(kept, max_cum_prob)
    IN  [scores  |-> [i \in 1..truncate |-> <<kept[i], SumSeq(kept)>>],
         indices |-> SubSeq(indices, 1, truncate)]

\* predict is called and returns
CallPredict ==
    /\ pc = "idle"
    /\ \E weights \in ScoreVectors, max_num_templates \in 1..MaxTemplates,
          max_cum_prob \in CumProbs :
          output' = [status |-> "predict", weights |-> weights,
                     max_num_templates |-> max_num_templates,
                     max_cum_prob |-> max_cum_prob,
                     result |-> predict(weights, max_num_templates, max_cum_prob)]
    /\ pc' = "returned"
    /\ UNCHANGED <<transformer, opts, target, chemicals, reactions, tree, iterations,
                   time_to_solve, chem_path, rxn_path, template, precursors, upd,
                   applied, timed_out, processed>>

NextPredict == CallPredict

SpecPredict == Init /\ [][NextPredict]_vars

-----------------------------------------------------------------------------
(* Properties *)

Chems == DOMAIN tree.chem

Rxns == DOMAIN tree.rxn

\* A rollout has just ended, or the loop of build_tree has
BetweenRollouts == pc \in {"loop", "finished"} /\ iterations > 0

\* C1: the search graph is acyclic: no chemical is reachable from itself, so
\* no path from the root visits a chemical twice, whatever the templates
\* regenerate (the leaf, a chemical of the path, a chemical above the leaf).
C1_Acyclic ==
    \A c \in Chems : c \notin Descendants(tree, ChemSuccessors(tree, c))

\* C1 witness: a precursor set was abandoned because one of its chemicals
\* reaches the leaf through the graph without being on the selected path.
C1_Witness == pc = "process" /\ processed = "cycle_in_graph"

\* C2: after every value update a chemical is solved if and only if it is
\* terminal or one of its reaction children is solved; a chemical solved
\* through one reaction stays solved when an unsolved reaction is added.
C2_SolvedIffTerminalOrChildSolved ==
    \A c \in Chems :
        tree.chem[c].solved <=>
            (tree.chem[c].terminal
             \/ \E r \in Range(tree.chem[c].succ) : tree.rxn[r].solved)

\* C3: after every backpropagation every reaction of the graph, on the path
\* just updated or not, is solved if and only if it was flagged solved or all
\* its precursors are solved now.
C3_ReactionSolvedIffChildrenSolved ==
    BetweenRollouts =>
        \A r \in Rxns :
            tree.rxn[r].solved <=>
                (tree.rxn[r].solved
                 \/ \A c \in Range(tree.rxn[r].succ) : tree.chem[c].solved)

\* C4: once the cached done flag of a chemical is true, no template is applied
\* to it any more: its explored list and its reaction children stay as they are.
C4_DoneIsFinal ==
    [][\A c \in Chems :
          tree.chem[c].done =>
              /\ tree'.chem[c].explored = tree.chem[c].explored
              /\ tree'.chem[c].succ = tree.chem[c].succ]_vars

\* C4 witness: the loop of build_tree has ended on a done root that is not
\* terminal and still has an unexplored template.
C4_Witness ==
    /\ pc = "finished"
    /\ ~ timed_out
    /\ tree.chem[target].done
    /\ ~ tree.chem[target].terminal
    /\ Len(tree.chem[target].explored) < Len(tree.chem[target].templates)

\* C5: a rollout started while the root is not done never backtracks past the
\* root: _select never deletes from an empty reaction path, and returns a
\* path and a template.
C5_SelectNeverFails == pc # "IndexError"

\* C6: with no budget triggering, build_tree ends normally, without an
\* exception, and then the root is done; it is not solved unless a
\* decomposition into terminal leaves exists.
C6_BuildEndsWithRootDone ==
    /\ pc # "IndexError"
    /\ (pc = "finished" /\ ~ timed_out /\ ~ opts.return_first)
          => tree.chem[target].done

\* enumerate_paths has returned or raised
Enumerated == pc = "enumerated"

\* The trees get_paths yields for the arguments of the last enumerate_paths call
Candidates(validate) ==
    get_paths(tree, target, opts.max_depth, opts.max_trees, validate)

\* C7: when the graph holds no decomposition whose leaves are all terminal,
\* enumerate_paths with validation returns the empty list and raises nothing,
\* in the format 'json' as in the format 'graph'.
C7_NoDecompositionGivesEmptyList ==
    (Enumerated /\ output.validate_paths /\ Candidates(TRUE) = <<>>)
        => (output.status = "ok" /\ output.paths = <<>>)

\* C8: with validation every emitted tree has only terminal leaves: each node
\* without children in an emitted tree is a chemical whose terminal flag is
\* true in the graph.
C8_ValidatedTreesEndInTerminals ==
    (Enumerated /\ output.validate_paths) =>
        \A i \in 1..Len(output.paths) :
            LET leaves == Leaves(output.paths[i])
            IN  \A j \in 1..Len(leaves) :
                    /\ leaves[j].type = "chemical"
                    /\ tree.chem[leaves[j].smiles].terminal

\* C8 witness: validation let a tree through and held another one back.
C8_Witness ==
    /\ Enumerated
    /\ output.validate_paths
    /\ output.paths # <<>>
    /\ Len(output.paths) < Len(Candidates(FALSE))

\* How often tree p occurs in the list paths
Occurrences(paths, p) == Cardinality({i \in 1..Len(paths) : paths[i] = p})

\* C9: sort_paths with the metric plausibility returns a permutation of its
\* input in which the product of the ff_score of the reactions of a tree
\* never increases along the list.
C9_PlausibilityNonIncreasing ==
    (Enumerated /\ output.status = "ok"
                /\ output.sorting_metric = "plausibility") =>
        LET input == Candidates(output.validate_paths)
            sorted == output.paths
        IN  /\ Len(sorted) = Len(input)
            /\ \A p \in Range(input) \cup Range(sorted) :
                   Occurrences(sorted, p) = Occurrences(input, p)
            /\ \A i \in 1..Len(sorted) - 1 :
                   overall_plausibility(sorted[i])
                       >= overall_plausibility(sorted[i + 1])

\* C9 witness: trees of different plausibility were put into another order.
C9_Witness ==
    /\ Enumerated
    /\ output.status = "ok"
    /\ Len(output.paths) >= 2
    /\ output.paths # Candidates(output.validate_paths)
    /\ overall_plausibility(output.paths[1])
           > overall_plausibility(output.paths[Len(output.paths)])

\* The target of this build meets the terminal criterion
TargetIsTerminal ==
    target # 0 /\ is_terminal(opts, tree.chem[target].purchase_price)

\* The tree that is the root alone
TrivialTree == [type |-> "chemical", smiles |-> target, terminal |-> TRUE,
                children |-> <<>>]

\* C10: a target that meets the terminal criterion is solved and done from the
\* start of build_tree, is never expanded, and enumerate_paths returns the one
\* tree that is the root alone.
C10_TerminalTargetIsTrivial ==
    TargetIsTerminal =>
        /\ tree.chem[target].solved
        /\ tree.chem[target].done
        /\ tree.chem[target].explored = <<>>
        /\ Enumerated => (output.status = "ok" /\ output.paths = <<TrivialTree>>)

\* C10 as the code has it: a target that meets the terminal criterion starts
\* like any other target, its terminal flag false for the whole build, not
\* done before the first rollout, done or solved only once a template was
\* applied to it, and a validated enumeration never returns the root alone.
C10_TerminalTargetIsSearched ==
    TargetIsTerminal =>
        /\ ~ tree.chem[target].terminal
        /\ (pc = "loop" /\ iterations = 0) => ~ Done
        /\ tree.chem[target].done => tree.chem[target].explored # <<>>
        /\ tree.chem[target].solved =>
               \E r \in Range(tree.chem[target].succ) : tree.rxn[r].solved
        /\ (Enumerated /\ output.validate_paths) =>
               \A i \in 1..Len(output.paths) : output.paths[i].children # <<>>

\* C10 witness: a route was found and returned for a target that meets the
\* terminal criterion.
C10_Witness ==
    /\ TargetIsTerminal
    /\ Enumerated
    /\ output.validate_paths
    /\ output.status = "ok"
    /\ output.paths # <<>>

\* The first rollout of this build has just ended
AfterFirstRollout == pc = "loop" /\ iterations = 1

\* The target has one template, and the one precursor set accepted for it has
\* terminal precursors only
OneTerminalStep ==
    /\ Len(tree.chem[target].templates) = 1
    /\ Len(reactions) = 1
    /\ Len(tree.rxn[reactions[1]].templates) = 1
    /\ \A c \in Range(tree.rxn[reactions[1]].succ) : tree.chem[c].terminal

\* C11: a target with one template that yields one accepted precursor set of
\* terminal precursors is solved and done after one rollout, the graph has one
\* reaction node, and path extraction yields one tree, of depth 1, with one
\* reaction.
C11_OneStepTargetSolved ==
    (AfterFirstRollout /\ OneTerminalStep) =>
        /\ tree.chem[target].solved
        /\ tree.chem[target].done
        /\ Cardinality(Rxns) = 1
        /\ LET paths == Candidates(TRUE)
           IN  /\ Len(paths) = 1
               /\ Len(RxnNodes(paths[1])) = 1
               /\ number_of_reactions(paths[1]) = 1
               /\ paths[1].smiles = target
               /\ \A i \in 1..Len(paths[1].children) :
                      \A j \in 1..Len(paths[1].children[i].children) :
                          paths[1].children[i].children[j].children = <<>>

\* C11 witness: the first rollout gave the target one reaction with two
\* terminal precursors.
C11_Witness ==
    /\ AfterFirstRollout
    /\ OneTerminalStep
    /\ Len(tree.rxn[reactions[1]].succ) = 2

\* No banned reaction, no banned chemical but the target, and no reaction
\* scored below the threshold is a node of the graph
NothingFilteredInGraph(T) ==
    /\ \A r \in DOMAIN T.rxn :
          /\ r \notin opts.banned_reactions
          /\ T.rxn[r].ff_score >= opts.fast_filter_threshold
    /\ \A c \in DOMAIN T.chem : c \in opts.banned_chemicals => c = target

\* C12: a precursor set scored below fast_filter_threshold, banned as a
\* reaction or holding a banned chemical adds no node and no edge, while the
\* template applied stays recorded as explored, so that no rollout selects a
\* template already applied to the same chemical; no banned reaction, banned
\* chemical other than the target or reaction below the threshold is ever in
\* the graph.
C12_FilteredSetsAddNothing ==
    [][/\ (pc = "process" /\ processed' = "rejected") =>
              /\ tree' = tree
              /\ chemicals' = chemicals
              /\ reactions' = reactions
       /\ pc' = "process" =>
              template' \in Range(tree'.chem[Last(chem_path')].explored)
       /\ (pc = "loop" /\ pc' = "expand") =>
              <<Last(chem_path'), template'>> \notin Range(applied)
       /\ NothingFilteredInGraph(tree')]_vars

\* C12 witness: a precursor set was dropped for the banned reaction, every
\* score passing the threshold, and a later rollout has selected again.
C12_Witness ==
    /\ pc = "process"
    /\ processed = "rejected"
    /\ opts.banned_reactions # {}
    /\ opts.fast_filter_threshold <= 10
    /\ iterations > 0

\* build_tree was called with max_branching = 1 on a target with two templates
CapOfOne ==
    /\ target # 0
    /\ opts.max_branching = 1
    /\ Len(tree.chem[target].templates) = 2

\* C13: with max_branching = 1 and two templates on the root, the root gets no
\* second reaction child once it has one from an earlier rollout, and with its
\* one child the root is done exactly when that child is done.
C13_RootKeepsOneChild ==
    [][CapOfOne =>
          /\ ( /\ pc = "process"
               /\ Last(chem_path) = target
               /\ \E r \in Range(tree.chem[target].succ) :
                      template \notin Range(tree.rxn[r].templates) )
                 => tree'.chem[target].succ = tree.chem[target].succ
          /\ ( /\ pc' = "update"
               /\ upd' = 0
               /\ Len(tree'.chem[target].succ) = 1 )
                 => (tree'.chem[target].done
                        <=> is_reaction_done(tree', tree'.chem[target].succ[1]))]_vars

\* C13 as the code has it: with max_branching = 1 the cap holds for every
\* chemical but the root. A rollout applies a template to a chemical other
\* than the root only while that chemical has no reaction child; the root is
\* offered its next template whatever its out-degree. When the done flag of
\* the root is recomputed and the root has reaction children, it is done
\* exactly when all of them are done.
C13_CapSparesRoot ==
    [][CapOfOne =>
          /\ (pc = "loop" /\ pc' = "expand" /\ Last(chem_path') # target)
                 => OutDegreeC(tree, Last(chem_path')) < opts.max_branching
          /\ ( /\ pc' = "update"
               /\ upd' = 0
               /\ tree'.chem[target].succ # <<>> )
                 => (tree'.chem[target].done
                        <=> \A r \in Range(tree'.chem[target].succ) :
                                is_reaction_done(tree', r))]_vars

\* C13 witness: under max_branching = 1 the root has reaction children from
\* both of its templates, the second made in a later rollout.
C13_Witness ==
    /\ CapOfOne
    /\ BetweenRollouts
    /\ \E r1, r2 \in Range(tree.chem[target].succ) :
          /\ 1 \in Range(tree.rxn[r1].templates)
          /\ 2 \in Range(tree.rxn[r2].templates)
          /\ r1 # r2

\* C14: a precursor set abandoned because one of its precursors would close a
\* cycle leaves the graph and the lists of chemicals and reactions as they
\* were: no chemical node for another precursor of the set, no reaction node,
\* no edge.
C14_CycleSetAddsNothing ==
    [][(pc = "process" /\ processed' \in {"cycle_on_path", "cycle_in_graph"}) =>
          /\ tree' = tree
          /\ chemicals' = chemicals
          /\ reactions' = reactions]_vars

\* Every configured budget is unmet
BudgetsUnmet ==
    /\ opts.max_iterations = None \/ iterations < opts.max_iterations
    /\ opts.max_chemicals = None \/ Len(chemicals) < opts.max_chemicals
    /\ opts.max_reactions = None \/ Len(reactions) < opts.max_reactions

\* What the check between rollouts asks for, the time apart
MayRoll == ~ tree.chem[target].done /\ BudgetsUnmet

\* This step calls _rollout
RolloutStarts == pc = "loop" /\ pc' \in {"expand", "IndexError"}

\* The loop of build_tree is inside a rollout
InRollout == pc \in {"expand", "process", "update"}

\* C15: a rollout starts only if at the check between rollouts the time is not
\* up, the root is not done and every configured budget is unmet; when one of
\* these fails the loop ends; a rollout that has started runs to its end, the
\* backpropagation up to the root, before the loop goes on or ends.
C15_RolloutsStartOnlyWithinBudgets ==
    [][/\ RolloutStarts => (MayRoll /\ ~ timed_out)
       /\ (pc = "loop" /\ ~ MayRoll) =>
              (pc' = "finished" /\ tree' = tree /\ iterations' = iterations)
       /\ RolloutStarts => pc' = "expand"
       /\ InRollout =>
              \/ pc' \in {"expand", "process", "update"}
              \/ /\ pc' \in {"loop", "finished"}
                 /\ pc = "update"
                 /\ upd = 0
                 /\ iterations' = iterations + 1]_vars

\* C16: with return_first set, the rollout at whose end the root is solved is
\* the last one of the build: the loop stops there and no rollout follows.
C16_ReturnFirstStopsAtFirstSolution ==
    [][opts.return_first =>
          /\ (pc = "update" /\ upd = 0 /\ tree.chem[target].solved)
                 => pc' = "finished"
          /\ (pc = "loop" /\ iterations > 0 /\ tree.chem[target].solved)
                 => pc' \notin {"expand", "IndexError"}]_vars

\* C17: right after _initialize the root is a node of the graph with terminal,
\* done and solved false, whatever the terminal criterion says of the target,
\* so that the loop condition of build_tree asks for a first rollout.
C17_RootStartsOpen ==
    [][pc = "idle" =>
          /\ target' \in DOMAIN tree'.chem
          /\ ~ tree'.chem[target'].terminal
          /\ ~ tree'.chem[target'].done
          /\ ~ tree'.chem[target'].solved
          /\ ~ done(tree', opts', target', iterations', chemicals', reactions')]_vars

\* C17 witness: the first rollout was started on a target that meets the
\* terminal criterion.
C17_Witness ==
    /\ pc = "expand"
    /\ iterations = 0
    /\ TargetIsTerminal
    /\ chem_path = <<target>>

\* is_terminal has returned
Returned == pc = "returned"

\* The bucket of a criterion: the one termination_logic names, or its default
BucketOf(o, name, default) ==
    IF name \in DOMAIN o.termination_logic THEN o.termination_logic[name]
    ELSE default

\* The criteria that take part for options o and inputs in, as the set of
\* <<name, bucket, value>>: purchasability, in the 'and' bucket, with the value
\* is_terminal gives it (C19 is about that value), and every criterion whose
\* threshold is configured, in the bucket termination_logic names or in its
\* default bucket
Criteria(o, in) ==
    { <<"purchasable", "and", TerminalResults(o, in)[1][2]>> }
    \cup (IF o.max_ppg # None
          THEN { <<"max_ppg", BucketOf(o, "max_ppg", "and"),
                   in.ppg # None /\ in.ppg <= o.max_ppg>> }
          ELSE {})
    \cup (IF o.max_scscore # None
          THEN { <<"max_scscore", BucketOf(o, "max_scscore", "or"),
                   in.scscore <= o.max_scscore>> }
          ELSE {})
    \cup (IF o.max_elements # <<>>
          THEN { <<"max_elements", BucketOf(o, "max_elements", "or"),
                   \A k \in DOMAIN o.max_elements :
                       in.elements[k] <= o.max_elements[k]>> }
          ELSE {})
    \cup (IF o.min_history # <<>>
          THEN { <<"min_history", BucketOf(o, "min_history", "or"),
                   \/ in.hist.as_reactant >= o.min_history.as_reactant
                   \/ in.hist.as_product >= o.min_history.as_product>> }
          ELSE {})

\* The molecule and the history the criteria read are there
DataPresent(in) == in.elements # <<>> /\ in.hist # <<>>

\* C18: is_terminal returns (every criterion of the 'and' bucket is true) or
\* (some criterion of the 'or' bucket is true), over purchasability and the
\* criteria with a configured threshold, each in the bucket termination_logic
\* names or in its default bucket, for every combination of thresholds and
\* inputs.
C18_TerminalIsAndOrOfBuckets ==
    (Returned /\ DataPresent(output.in)) =>
        LET criteria == Criteria(opts, output.in)
        IN  output.result <=>
                \/ \A c \in criteria : c[2] = "and" => c[3]
                \/ \E c \in criteria : c[2] = "or" /\ c[3]

\* C18 witness: is_terminal returned false for a chemical with a price under
\* the cap, because termination_logic put the score criterion, which fails,
\* into the 'and' bucket.
C18_Witness ==
    /\ Returned
    /\ DataPresent(output.in)
    /\ ~ output.result
    /\ output.in.ppg = 1
    /\ opts.max_ppg = 1
    /\ opts.max_scscore = 2
    /\ output.in.scscore = 3
    /\ "max_scscore" \in DOMAIN opts.termination_logic
    /\ opts.max_elements # <<>>

\* C19: purchasability is the first criterion of the 'and' bucket and is true
\* exactly when the price is not absent, a price of 0 included; with no
\* threshold configured is_terminal returns just that.
C19_PurchasableIffPricePresent ==
    Returned =>
        /\ TerminalResults(opts, output.in)[1] = <<"and", output.in.ppg # None>>
        /\ ( /\ opts.max_ppg = None
             /\ opts.max_scscore = None
             /\ opts.max_elements = <<>>
             /\ opts.min_history = <<>> )
               => (output.result <=> output.in.ppg # None)

\* A reaction is done: it has a precursor, and the cached done flag of every
\* precursor is true
ReactionIsDone(r) ==
    /\ tree.rxn[r].succ # <<>>
    /\ \A c \in Range(tree.rxn[r].succ) : tree.chem[c].done

\* What the done flag of chemical c is to be on the graph as it is
DoneAsDefined(c) ==
    \/ tree.chem[c].terminal
    \/ tree.chem[c].templates = <<>>
    \/ (tree.chem[c].min_depth # None /\ tree.chem[c].min_depth >= opts.max_depth)
    \/ /\ \/ Len(tree.chem[c].succ) >= opts.max_branching
          \/ \A t \in Range(Keys(tree.chem[c].templates)) :
                 t \in Range(tree.chem[c].explored)
       /\ \A r \in Range(tree.chem[c].succ) : ReactionIsDone(r)

\* C20: at the end of every rollout the cached done flag of every chemical of
\* the selected path is: terminal, or no templates, or min_depth >= max_depth,
\* or (out-degree >= max_branching or every template explored) and every
\* reaction child done, on the graph as it is then.
C20_PathDoneFlagsAreCurrent ==
    BetweenRollouts =>
        \A i \in 1..Len(chem_path) :
            tree.chem[chem_path[i]].done <=> DoneAsDefined(chem_path[i])

\* C20 witness: a rollout ended on a path of three chemicals whose leaf is done
\* by its depth alone, with a template left and no reaction child.
C20_Witness ==
    /\ BetweenRollouts
    /\ Len(chem_path) = 3
    /\ LET leaf == Last(chem_path)
       IN  /\ tree.chem[leaf].done
           /\ ~ tree.chem[leaf].terminal
           /\ Len(tree.chem[leaf].explored) < Len(tree.chem[leaf].templates)
           /\ tree.chem[leaf].succ = <<>>

\* C21: caching the done flag of a chemical is safe. In every state, every
\* chemical whose cached done flag is true, on the path of the latest rollout
\* or not, satisfies the done condition on the graph as it is; and the cached
\* done flag of a chemical other than the root never goes from true to false.
C21_CachedDoneIsSafe ==
    /\ [](\A c \in Chems : tree.chem[c].done => DoneAsDefined(c))
    /\ [][\A c \in Chems \ {target} :
             (tree.chem[c].done /\ c \in DOMAIN tree'.chem)
                 => tree'.chem[c].done]_vars

\* C21 witness: a rollout has ended that did not pass through a chemical whose
\* cached done flag is true because its templates are all explored and its
\* reaction children are done.
C21_Witness ==
    /\ BetweenRollouts
    /\ \E c \in Chems \ Range(chem_path) :
          /\ tree.chem[c].done
          /\ ~ tree.chem[c].terminal
          /\ tree.chem[c].templates # <<>>
          /\ tree.chem[c].succ # <<>>

\* C22: in every state every reaction node has exactly one predecessor, the
\* chemical node of its product, and at least one successor, all of them
\* chemical nodes; the successors of a chemical node are reaction nodes, so
\* its predecessors are too. The same holds of a reaction that a second
\* template produced again and that was merged.
C22_ReactionsHaveOneProductAndPrecursors ==
    /\ \A r \in Rxns :
          /\ tree.rxn[r].pred = << r[2] >>
          /\ {c \in Chems : r \in Range(tree.chem[c].succ)} = { r[2] }
          /\ tree.rxn[r].succ # <<>>
          /\ Range(tree.rxn[r].succ) \subseteq Chems
    /\ \A c \in Chems : Range(tree.chem[c].succ) \subseteq Rxns

\* C22 witness: a reaction of the graph was produced by two templates and
\* merged.
C22_Witness ==
    \E r \in Rxns :
        /\ Len(tree.rxn[r].templates) = 2
        /\ tree.rxn[r].templates[1] # tree.rxn[r].templates[2]

\* The cap get_paths is called with by the last enumerate_paths call
MaxTreesGiven == OrElse(output.max_trees, opts.max_trees)

\* The trees of the graph in the order get_paths enumerates them, those that
\* fail the validation left out when the call asked for validation
ValidInOrder ==
    LET all == get_chem_paths(tree, target, 0, opts.max_depth)
    IN  IF output.validate_paths THEN SelectSeq(all, validate_path) ELSE all

\* C23: with max_trees set, get_paths emits at most max_trees trees, and the
\* cap counts only the trees that passed the validation: what is emitted is
\* the first max_trees valid trees in the order of enumeration, or all of the
\* valid trees when there are fewer (seen in what enumerate_paths returns in
\* the format 'graph', which is the emitted trees sorted).
C23_CapCountsValidTreesOnly ==
    (Enumerated /\ output.status = "ok" /\ MaxTreesGiven # None) =>
        /\ Len(output.paths) <= MaxTreesGiven
        /\ output.paths =
              sort_paths(SubSeq(ValidInOrder, 1,
                                Min2(MaxTreesGiven, Len(ValidInOrder))),
                         output.sorting_metric)

\* C23 witness: with a cap of one, the first tree in the order of enumeration
\* failed the validation and the second one was emitted.
C23_Witness ==
    /\ Enumerated
    /\ output.status = "ok"
    /\ output.validate_paths
    /\ MaxTreesGiven = 1
    /\ Len(output.paths) = 1
    /\ ~ validate_path(get_chem_paths(tree, target, 0, opts.max_depth)[1])

\* C24: enumerate_paths on a built tree, called with a sorting metric other
\* than 'plausibility', 'number_of_starting_materials' and
\* 'number_of_reactions', or with a path format other than 'graph' and 'json',
\* raises ValueError with a message that names the value it does not support,
\* whatever the graph holds, a graph without a valid tree included.
C24_UnknownArgumentRaisesValueError ==
    LET bad_metric ==
            output.sorting_metric \notin
                {"plausibility", "number_of_starting_materials", "number_of_reactions"}
        bad_format == output.path_format \notin {"graph", "json"}
    IN  (Enumerated /\ (bad_metric \/ bad_format)) =>
            /\ output.status = "ValueError"
            /\ output.message # <<>>
            /\ Last(output.message) =
                  (IF bad_metric THEN output.sorting_metric ELSE output.path_format)

\* C24 witness: the format was unknown, the metric known, and the graph held
\* no tree that passes the validation the call asked for.
C24_Witness ==
    /\ Enumerated
    /\ output.path_format = "xml"
    /\ output.sorting_metric = "plausibility"
    /\ output.validate_paths
    /\ ValidInOrder = <<>>
    /\ output.status = "ValueError"

\* The state of the MCTS object is left as it was by the step
MctsUnchanged ==
    /\ tree' = tree
    /\ chemicals' = chemicals
    /\ reactions' = reactions
    /\ target' = target
    /\ opts' = opts
    /\ iterations' = iterations
    /\ time_to_solve' = time_to_solve

\* C25: an operation called before what it needs is there raises and changes
\* no state. enumerate_paths on an MCTS no tree was built on (no target, an
\* empty graph) raises and returns no paths; lookup_id and dump_to_file on a
\* TemplateTransformer without loaded templates raise ValueError; the MCTS and
\* the transformer are after the call as they were before it.
C25_CallBeforePrerequisiteRaises ==
    [][/\ (pc = "idle" /\ pc' = "raised") =>
              /\ output'.status \in {"ValueError", "NetworkXError"}
              /\ output'.paths = <<>>
              /\ MctsUnchanged
              /\ transformer' = transformer
       /\ (pc = "idle" /\ pc' = "returned" /\ transformer.templates = <<>>) =>
              /\ output'.status = "ValueError"
              /\ MctsUnchanged
              /\ transformer' = transformer]_vars

\* C25 witness: lookup_id has raised on a transformer that holds no template.
C25_Witness ==
    /\ pc = "returned"
    /\ output.call = "lookup_id"
    /\ output.status = "ValueError"
    /\ transformer.templates = <<>>

\* enumerate_paths has raised on an MCTS no tree was built on
C25_WitnessUnbuilt ==
    /\ pc = "raised"
    /\ output.status = "NetworkXError"
    /\ tree = EmptyTree

\* The step adds no node and no edge to the graph
NothingAdded ==
    /\ chemicals' = chemicals
    /\ reactions' = reactions
    /\ DOMAIN tree'.chem = Chems
    /\ DOMAIN tree'.rxn = Rxns
    /\ \A c \in Chems : tree'.chem[c].succ = tree.chem[c].succ
    /\ \A r \in Rxns : tree'.rxn[r].succ = tree.rxn[r].succ

\* _get_precursors has returned no precursor set for the selected template
EmptyOutcome == pc = "process" /\ precursors = <<>> /\ processed = NoneProcessed

\* C26: a template that is invalid or gives no precursor set does not end the
\* search. _expand adds the template to the explored list of the leaf and adds
\* no node and no edge; _update then runs over the whole path, visiting each
\* of its chemicals once and adding nothing; and the rollout returns to the
\* loop of build_tree, which counts it.
C26_EmptyOutcomeIsNotFatal ==
    /\ [](EmptyOutcome => ENABLED StartUpdate)
    /\ [](pc = "update" => ENABLED (UpdateStep \/ EndRollout))
    /\ [][/\ (pc = "expand" /\ precursors' = <<>>) =>
                /\ tree'.chem[Last(chem_path)].explored =
                      Append(tree.chem[Last(chem_path)].explored, template)
                /\ NothingAdded
                /\ EmptyOutcome'
          /\ EmptyOutcome =>
                /\ pc' = "update"
                /\ upd' = Len(chem_path)
                /\ tree' = tree
                /\ NothingAdded
          /\ (pc = "update" /\ upd > 0) =>
                /\ tree'.chem[chem_path[upd]].visit_count =
                      tree.chem[chem_path[upd]].visit_count + 1
                /\ upd' = upd - 1
                /\ pc' = "update"
                /\ NothingAdded
          /\ (pc = "update" /\ upd = 0) =>
                /\ pc' = "loop"
                /\ iterations' = iterations + 1
                /\ tree' = tree]_vars

\* C26 witness: the first rollout applied a template to the root that gave no
\* precursor set, and has returned to the loop: the template is explored, the
\* root has been visited, and the graph holds the root alone.
C26_Witness ==
    /\ pc = "loop"
    /\ iterations = 1
    /\ Len(tree.chem[target].explored) = 1
    /\ tree.chem[target].visit_count = 2
    /\ Chems = {target}
    /\ Rxns = {}

\* A call of enumerate_paths returns or raises in this step
EnumerateStep == pc \in {"idle", "finished"} /\ pc' \in {"enumerated", "raised"}

\* C27 as stated: a call of enumerate_paths leaves the node set, the edge set
\* and every attribute of every node of the search graph as they were.
C27_ExtractionReadsOnly ==
    [][EnumerateStep => (tree' = tree /\ chemicals' = chemicals /\ reactions' = reactions)]_vars

\* C27: a call of enumerate_paths leaves the node set, the edge set, every
\* attribute of every chemical node and every attribute of every reaction node
\* but its template data as they were; the template data is written on the
\* reaction nodes of the search graph itself, by retrieve_template_data,
\* before the output trees are copied from it.
C27_ExtractionWritesTemplateDataOnly ==
    [][EnumerateStep =>
          /\ chemicals' = chemicals
          /\ reactions' = reactions
          /\ tree'.chem = tree.chem
          /\ DOMAIN tree'.rxn = Rxns
          /\ \A r \in Rxns :
                /\ [tree'.rxn[r] EXCEPT !.tforms = tree.rxn[r].tforms] = tree.rxn[r]
                /\ tree'.rxn[r].tforms = tree.rxn[r].templates]_vars

\* C27 witness: enumerate_paths has returned trees of a graph whose reaction
\* nodes now hold template data.
C27_Witness ==
    /\ Enumerated
    /\ output.status = "ok"
    /\ output.paths # <<>>
    /\ Rxns # {}
    /\ \A r \in Rxns : tree.rxn[r].tforms # <<>>

\* predict has returned
Predicted == pc = "returned" /\ output.status = "predict"

\* The weights of the templates predict may return: the max_num_templates
\* largest, in descending order
TopWeights ==
    LET w == output.weights
        k == Min2(output.max_num_templates, Len(w))
        RECURSIVE Largest(_, _)
        Largest(left, n) ==
            IF n = 0 THEN <<>>
            ELSE LET m == CHOOSE i \in left : \A j \in left : w[i] >= w[j]
                 IN  <<w[m]>> \o Largest(left \ {m}, n - 1)
    IN  Largest(1..Len(w), k)

\* The cumulative probability of the first n of the top templates is above
\* max_cum_prob
Above(n) ==
    SumSeq(SubSeq(TopWeights, 1, n)) * 1000 > output.max_cum_prob * SumSeq(TopWeights)

\* C28: predict returns template ids in descending order of score, at most
\* max_num_templates of them, cut where the cumulative probability would go
\* above max_cum_prob; when the cumulative probability of the top
\* max_num_templates templates never goes above max_cum_prob, all of them are
\* returned.
C28_PredictReturnsTopTemplates ==
    Predicted =>
        LET indices == output.result.indices
            n == Len(indices)
        IN  /\ n <= output.max_num_templates
            /\ [i \in 1..n |-> output.weights[indices[i] + 1]] = SubSeq(TopWeights, 1, n)
            /\ ~ Above(n)
            /\ n < Len(TopWeights) => Above(n + 1)
            /\ (\A i \in 1..Len(TopWeights) : ~ Above(i)) => n = Len(TopWeights)

\* _select has returned a path and a template
Selected == pc = "expand"

\* C29: whenever _select returns chem_path, rxn_path and template, chem_path
\* starts at the target and holds no chemical twice; rxn_path is one shorter
\* than chem_path; the i-th reaction is a successor of the i-th chemical and a
\* predecessor of the next one; the cached done flag of every chemical of the
\* path but the root is false; and template is a key of the template mapping
\* of the leaf that is not in its explored list.
C29_SelectReturnsOpenPath ==
    Selected =>
        /\ chem_path # <<>>
        /\ chem_path[1] = target
        /\ \A i, j \in 1..Len(chem_path) : chem_path[i] = chem_path[j] => i = j
        /\ Len(rxn_path) = Len(chem_path) - 1
        /\ \A i \in 1..Len(rxn_path) :
              /\ rxn_path[i] \in Range(tree.chem[chem_path[i]].succ)
              /\ chem_path[i + 1] \in Range(tree.rxn[rxn_path[i]].succ)
        /\ \A i \in 2..Len(chem_path) : ~ tree.chem[chem_path[i]].done
        /\ template \in Range(Keys(tree.chem[Last(chem_path)].templates))
        /\ template \notin Range(tree.chem[Last(chem_path)].explored)

\* C29 witness: _select has returned a path of three chemicals and a template
\* of its leaf, which is not the first template of that leaf.
C29_Witness ==
    /\ Selected
    /\ Len(chem_path) = 3
    /\ tree.chem[Last(chem_path)].explored # <<>>

\* C30: in every state the explored list of every chemical holds no template
\* twice, holds keys of the template mapping of the chemical only, and is a
\* prefix of the keys in the order of their insertion, which is the order of
\* descending relevance: the templates of a chemical are applied in the order
\* of decreasing relevance.
C30_ExploredIsPrefixOfTemplates ==
    /\ \A c \in Chems :
          LET explored == tree.chem[c].explored
              templates == tree.chem[c].templates
          IN  /\ \A i, j \in 1..Len(explored) : explored[i] = explored[j] => i = j
              /\ Range(explored) \subseteq Range(Keys(templates))
              /\ Len(explored) <= Len(templates)
              /\ \A i \in 1..Len(explored) : explored[i] = templates[i][1]
              /\ \A i \in 1..(Len(templates) - 1) : templates[i][2] >= templates[i + 1][2]
    /\ \A i, j \in 1..Len(applied) :
          (i < j /\ applied[i][1] = applied[j][1]) =>
              Relevance(tree.chem[applied[i][1]].templates, applied[i][2])
                  >= Relevance(tree.chem[applied[i][1]].templates, applied[j][2])

\* C30 witness: both templates of a chemical other than the root have been
\* applied to it.
C30_Witness ==
    \E c \in Chems \ {target} :
        /\ Len(tree.chem[c].templates) = 2
        /\ Len(tree.chem[c].explored) = 2

\* (sum of the relevance of the contributing templates) * est_value /
\* visit_count + exploration_weight * sqrt(ln(chemical visits) / reaction visits)
ScoreOfReaction(c, r) ==
    LET probability ==
            SumSeq([i \in 1..Len(tree.rxn[r].templates) |->
                       Relevance(tree.chem[c].templates, tree.rxn[r].templates[i])])
    IN  (probability * tree.rxn[r].est_value) \div tree.rxn[r].visit_count
        + opts.exploration_weight
            * ISqrt((LnMilli[tree.chem[c].visit_count] * 1000)
                        \div tree.rxn[r].visit_count)

\* relevance + exploration_weight * sqrt(ln(chemical visits))
ScoreOfTemplate(c, t) ==
    Relevance(tree.chem[c].templates, t)
    + opts.exploration_weight * ISqrt(LnMilli[tree.chem[c].visit_count] * 1000)

\* The unexplored templates of c, most relevant first
Unexplored(c) ==
    SelectSeq(Keys(tree.chem[c].templates),
              LAMBDA t : t \notin Range(tree.chem[c].explored))

\* Selection offers c its best unexplored template
TemplateOffered(c) ==
    /\ Unexplored(c) # <<>>
    /\ Len(tree.chem[c].succ) < opts.max_branching \/ c = target

\* An option is valid when selection is not led to mark it invalid: a chemical
\* that is offered a template or has a valid reaction, a reaction that is not
\* done and has a valid precursor that is not done
RECURSIVE ValidChem(_)
ValidRxn(r) ==
    /\ ~ ReactionIsDone(r)
    /\ \E p \in Range(tree.rxn[r].succ) : ~ tree.chem[p].done /\ ValidChem(p)

ValidChem(c) ==
    TemplateOffered(c) \/ \E r \in Range(tree.chem[c].succ) : ValidRxn(r)

\* C31: at each chemical of the path _select returns, the option taken has the
\* maximal score among the valid options, an explored reaction scoring
\* (sum of relevance of its templates) * est_value / visit_count +
\* exploration_weight * sqrt(ln(chemical visit_count) / reaction visit_count)
\* and the most relevant unexplored template scoring relevance +
\* exploration_weight * sqrt(ln(chemical visit_count)); below a taken reaction
\* the path goes on with the precursor of the lowest visit count among those
\* that are not done and not invalid.
C31_SelectTakesBestOption ==
    Selected =>
        /\ template = Unexplored(Last(chem_path))[1]
        /\ \A i \in 1..Len(chem_path) :
              LET c == chem_path[i]
                  taken == IF i = Len(chem_path) THEN ScoreOfTemplate(c, template)
                           ELSE ScoreOfReaction(c, rxn_path[i])
              IN  /\ \A r \in Range(tree.chem[c].succ) :
                        ValidRxn(r) => ScoreOfReaction(c, r) <= taken
                  /\ TemplateOffered(c) =>
                        ScoreOfTemplate(c, Unexplored(c)[1]) <= taken
                  /\ i < Len(chem_path) =>
                        \A p \in Range(tree.rxn[rxn_path[i]].succ) :
                            (~ tree.chem[p].done /\ ValidChem(p)) =>
                                tree.chem[chem_path[i + 1]].visit_count
                                    <= tree.chem[p].visit_count

\* C31 witness: _select went down the reaction of the root that scored more
\* than another valid reaction of the root, and on to one of two precursors of
\* it that are not done and valid.
C31_Witness ==
    /\ Selected
    /\ Len(chem_path) >= 2
    /\ \E r \in Range(tree.chem[target].succ) :
          /\ ValidRxn(r)
          /\ ScoreOfReaction(target, r) < ScoreOfReaction(target, rxn_path[1])
    /\ \E p \in Range(tree.rxn[rxn_path[1]].succ) :
          /\ p # chem_path[2]
          /\ ~ tree.chem[p].done
          /\ ValidChem(p)

\* C32: a chemical other than the root whose out-degree is max_branching or
\* more is never the leaf _select returns a template for, and its explored
\* list stays as it is in every step: no template is applied to it from then
\* on. The root is the one chemical the cap does not hold for.
C32_CapStopsTemplatesBelowRoot ==
    [][/\ (pc = "loop" /\ pc' = "expand" /\ Last(chem_path') # target)
             => OutDegreeC(tree, Last(chem_path')) < opts.max_branching
       /\ \A c \in Chems \ {target} :
             (OutDegreeC(tree, c) >= opts.max_branching /\ c \in DOMAIN tree'.chem)
                 => /\ tree'.chem[c].explored = tree.chem[c].explored
                    /\ OutDegreeC(tree', c) >= opts.max_branching]_vars

\* C32 witness: _select has passed through a chemical below the root that has
\* as many reaction children as max_branching allows and a template left, and
\* has returned a template of a chemical below it.
C32_Witness ==
    /\ Selected
    /\ Len(chem_path) = 3
    /\ OutDegreeC(tree, chem_path[2]) >= opts.max_branching
    /\ Unexplored(chem_path[2]) # <<>>

\* C33: the backpropagation of a rollout visits the path from the leaf to the
\* root, each index once. The visit of an index adds exactly 1 to the
\* visit_count of the chemical there and, for a chemical other than the root,
\* exactly 1 to the visit_count of the reaction that links it to its parent on
\* the path (none for the root); the visit_count, min_depth and done of every
\* other chemical and the visit_count of every other reaction stay as they are.
C33_UpdateVisitsThePathOnly ==
    [][/\ (pc = "process" /\ pc' = "update") =>
             /\ upd' = Len(chem_path)
             /\ Len(rxn_path) = Len(chem_path) - 1
       /\ (pc = "update" /\ pc' # "update") => upd = 0
       /\ (pc = "update" /\ upd > 0) =>
             LET c == chem_path[upd]
                 linked == IF upd > 1 THEN {rxn_path[upd - 1]} ELSE {}
             IN  /\ upd' = upd - 1
                 /\ upd = 1 <=> c = target
                 /\ tree'.chem[c].visit_count = tree.chem[c].visit_count + 1
                 /\ \A r \in linked :
                       /\ r \in Range(tree.chem[chem_path[upd - 1]].succ)
                       /\ c \in Range(tree.rxn[r].succ)
                       /\ tree'.rxn[r].visit_count = tree.rxn[r].visit_count + 1
                 /\ \A x \in Chems \ {c} :
                       /\ tree'.chem[x].visit_count = tree.chem[x].visit_count
                       /\ tree'.chem[x].min_depth = tree.chem[x].min_depth
                       /\ tree'.chem[x].done = tree.chem[x].done
                 /\ \A r \in Rxns \ linked :
                       tree'.rxn[r].visit_count = tree.rxn[r].visit_count]_vars

\* C33 witness: the backpropagation over a path of two chemicals has ended in
\* a graph that holds a chemical and a reaction off the path.
C33_Witness ==
    /\ pc = "update"
    /\ upd = 0
    /\ Len(chem_path) = 2
    /\ Chems \ Range(chem_path) # {}
    /\ Rxns \ Range(rxn_path) # {}

\* The chemicals d reactions below the target along some walk of the graph
RECURSIVE AtDepth(_)
AtDepth(d) ==
    IF d = 0 THEN {target}
    ELSE {p \in Chems : \E c \in AtDepth(d - 1) :
              \E r \in Range(tree.chem[c].succ) : p \in Range(tree.rxn[r].succ)}

\* The chemical the running backpropagation step visits, and at which index
VisitedNow == IF pc = "update" /\ upd > 0 THEN {chem_path[upd]} ELSE {}

\* C34: min_depth of a chemical is unset exactly while the chemical was never
\* on a selected path, and otherwise is the smallest index at which it was
\* visited: a visit at index i sets it to i when unset and to the minimum of
\* i and the old value otherwise, no other step changes it, it never
\* increases, it is the length of a walk from the target to the chemical,
\* and the target's min_depth is 0 once a rollout has completed.
C34_MinDepthIsSmallestPathIndex ==
    /\ [](\A c \in Chems :
            LET d == tree.chem[c].min_depth
            IN  /\ d = None <=> tree.chem[c].visit_count = 1
                /\ d # None => d >= 0 /\ c \in AtDepth(d)
                /\ d = 0 <=> (c = target /\ tree.chem[c].visit_count > 1))
    /\ [](iterations > 0 /\ target \in Chems => tree.chem[target].min_depth = 0)
    /\ [][/\ \A c \in Chems' \ Chems : tree'.chem[c].min_depth = None
          /\ \A c \in Chems \cap Chems' :
                LET old == tree.chem[c].min_depth
                    new == tree'.chem[c].min_depth
                IN  IF c \in VisitedNow
                    THEN new = IF old = None \/ upd - 1 < old THEN upd - 1 ELSE old
                    ELSE new = old]_vars

\* A chemical first visited at one index is visited again at a greater one
C34_Witness ==
    /\ pc = "update"
    /\ upd > 0
    /\ tree.chem[chem_path[upd]].min_depth # None
    /\ tree.chem[chem_path[upd]].min_depth < upd - 1

\* The reactions whose value this step updates: the parent reaction of the
\* chemical the backpropagation visits, and the reaction expansion attaches
\* (the one that gains a template)
ValueUpdated ==
    IF pc = "update" /\ upd > 1 THEN {rxn_path[upd - 1]}
    ELSE {r \in Rxns' : tree'.rxn[r].templates #
                           (IF r \in Rxns THEN tree.rxn[r].templates ELSE <<>>)}

\* The sum of the values of the precursors of reaction r in graph T
PrecursorValue(T, r) ==
    LET succ == T.rxn[r].succ
    IN  SumSeq([i \in 1..Len(succ) |-> T.chem[succ[i]].est_value])

\* What this step adds to the value of chemical c
AddedToProduct(c) ==
    IF \E r \in ValueUpdated : r[2] = c
    THEN PrecursorValue(tree', CHOOSE r \in ValueUpdated : r[2] = c)
    ELSE 0

\* C35: a value update of reaction r adds the sum s of the values of r's
\* precursors to the value of r and to the value of r's product and changes
\* no other value; no other step changes a value, a new chemical starts at
\* 0 or 1 and a new reaction at 0, so values are never negative and never
\* decrease.
C35_ValuesOnlyAccumulate ==
    /\ [](/\ \A c \in Chems : tree.chem[c].est_value >= 0
          /\ \A r \in Rxns : tree.rxn[r].est_value >= 0)
    /\ [][/\ Cardinality(ValueUpdated) <= 1
          /\ \A r \in ValueUpdated : r[2] \in Chems
          /\ Rxns' # Rxns => ValueUpdated # {}
          /\ \A c \in Chems' \ Chems : tree'.chem[c].est_value \in {0, 1}
          /\ \A c \in Chems \cap Chems' :
                /\ tree'.chem[c].est_value = tree.chem[c].est_value + AddedToProduct(c)
                /\ tree'.chem[c].est_value >= tree.chem[c].est_value
          /\ \A r \in Rxns' :
                LET old == IF r \in Rxns THEN tree.rxn[r].est_value ELSE 0
                IN  /\ tree'.rxn[r].est_value =
                          old + (IF r \in ValueUpdated THEN PrecursorValue(tree', r)
                                 ELSE 0)
                    /\ tree'.rxn[r].est_value >= old]_vars

\* A reaction whose value was added to more than once, on attachment and on
\* backpropagation: it holds more than the sum of its precursors' values
C35_Witness ==
    /\ pc = "update"
    /\ \E r \in Rxns :
          /\ PrecursorValue(tree, r) > 0
          /\ tree.rxn[r].est_value > PrecursorValue(tree, r)
          /\ tree.chem[r[2]].est_value > tree.rxn[r].est_value

\* T(c, d): 1 for a chemical without reactions or at depth max_depth, else
\* the sum over its reactions of the product over their precursors of T(p, d + 1)
RECURSIVE TreeCount(_, _)
TreeCount(c, d) ==
    IF tree.chem[c].succ = <<>> \/ (opts.max_depth # None /\ d >= opts.max_depth)
    THEN 1
    ELSE LET rs == tree.chem[c].succ
         IN  SumSeq([i \in 1..Len(rs) |->
                ProdSeq([j \in 1..Len(tree.rxn[rs[i]].succ) |->
                            TreeCount(tree.rxn[rs[i]].succ[j], d + 1)])])

\* An emitted tree below chemical node n at depth d: a leaf is a chemical
\* without reactions or at depth max_depth, any other chemical has one
\* reaction of the graph below it, and that reaction all of its precursors
RECURSIVE IsRoute(_, _)
IsRoute(n, d) ==
    /\ n.type = "chemical"
    /\ n.smiles \in Chems
    /\ IF tree.chem[n.smiles].succ = <<>>
          \/ (opts.max_depth # None /\ d >= opts.max_depth)
       THEN n.children = <<>>
       ELSE /\ Len(n.children) = 1
            /\ LET r == n.children[1]
               IN  /\ r.type = "reaction"
                   /\ r.smiles \in Range(tree.chem[n.smiles].succ)
                   /\ [i \in 1..Len(r.children) |-> r.children[i].smiles]
                          = tree.rxn[r.smiles].succ
                   /\ \A i \in 1..Len(r.children) : IsRoute(r.children[i], d + 1)

\* enumerate_paths returned the trees of get_paths called without validation
\* and without a cap, sorted and not translated
EnumeratedAll ==
    /\ pc = "enumerated"
    /\ output.status = "ok"
    /\ output.path_format = "graph"
    /\ ~ output.validate_paths
    /\ opts.max_trees = None

\* C36: without validation and without max_trees, get_paths emits exactly
\* T(target, 0) trees, no two of them the same; each is rooted at the target,
\* and its leaves are the chemicals without outgoing edges or at depth
\* max_depth.
C36_GetPathsEmitsEveryRoute ==
    EnumeratedAll =>
        /\ Len(output.paths) = TreeCount(target, 0)
        /\ Cardinality(Range(output.paths)) = Len(output.paths)
        /\ \A i \in 1..Len(output.paths) :
              /\ output.paths[i].smiles = target
              /\ IsRoute(output.paths[i], 0)

\* Several trees were emitted and a chemical at depth max_depth that has
\* reactions in the graph is a leaf of one of them
C36_Witness ==
    /\ EnumeratedAll
    /\ Len(output.paths) >= 2
    /\ \E i \in 1..Len(output.paths) :
          LET leaves == Leaves(output.paths[i])
          IN  \E j \in 1..Len(leaves) : tree.chem[leaves[j].smiles].succ # <<>>

\* C37: no template is applied to a chemical at index max_depth or more of
\* the selected path, so no chemical that has a reaction lies max_depth or
\* more reactions below the target and no chemical lies more than max_depth
\* reactions below it.
C37_NoTemplateAtMaxDepth ==
    /\ pc = "expand" => Len(chem_path) - 1 < opts.max_depth
    /\ target \in Chems =>
          \A d \in 0..Cardinality(Chems) : \A c \in AtDepth(d) :
              /\ tree.chem[c].succ # <<>> => d < opts.max_depth
              /\ d <= opts.max_depth

\* The total length of the explored lists, and of the template lists
RECURSIVE TotalOver(_, _)
TotalOver(cs, field) ==
    IF cs = {} THEN 0
    ELSE LET c == CHOOSE x \in cs : TRUE
         IN  Len(IF field = "explored" THEN tree.chem[c].explored
                 ELSE tree.chem[c].templates)
             + TotalOver(cs \ {c}, field)

TotalExplored == TotalOver(Chems, "explored")

\* A rollout is past its expansion and short of its end
Expanded == pc \in {"process", "update"}

\* C38: the template a rollout selects is an unexplored template of the leaf
\* of its path, so the expansion marks it; a rollout marks that template and
\* no other, of that chemical and of no other; no (chemical, template) pair
\* is marked twice; the number of completed rollouts is the total length of
\* the explored lists (a running rollout that has expanded counts one more)
\* and is at most the number of (chemical, template) pairs of the graph.
C38_OneTemplatePerRollout ==
    /\ [](/\ pc = "expand" =>
                /\ template \notin Range(tree.chem[Last(chem_path)].explored)
                /\ template \in Range(Keys(tree.chem[Last(chem_path)].templates))
          /\ TotalExplored = iterations + (IF Expanded THEN 1 ELSE 0)
          /\ iterations <= TotalOver(Chems, "templates")
          /\ \A c \in Chems :
                /\ Cardinality(Range(tree.chem[c].explored)) = Len(tree.chem[c].explored)
                /\ Range(tree.chem[c].explored) \subseteq Range(Keys(tree.chem[c].templates)))
    /\ [][/\ \A c \in Chems' \ Chems : tree'.chem[c].explored = <<>>
          /\ \A c \in Chems \cap Chems' :
                tree'.chem[c].explored =
                    IF pc = "expand" /\ c = Last(chem_path)
                    THEN Append(tree.chem[c].explored, template)
                    ELSE tree.chem[c].explored]_vars

\* Rollouts have marked templates of two chemicals, and one of the chemicals
\* has a template left
C38_Witness ==
    /\ pc = "loop"
    /\ iterations >= 3
    /\ Cardinality({c \in Chems : tree.chem[c].explored # <<>>}) >= 2
    /\ \E c \in Chems : 0 < Len(tree.chem[c].explored)
                        /\ Len(tree.chem[c].explored) < Len(tree.chem[c].templates)

\* C39: the list of chemicals holds every chemical node of the graph once
\* and nothing else, and the list of reactions every reaction node once and
\* nothing else, after any sequence of build_tree, clear and load_tree calls.
C39_ListsAreTheNodes ==
    /\ Range(chemicals) = Chems
    /\ Len(chemicals) = Cardinality(Chems)
    /\ Range(reactions) = Rxns
    /\ Len(reactions) = Cardinality(Rxns)

\* C40: an instance on which build_tree may be called, fresh or cleared after
\* a build, has an empty graph, empty lists of chemicals and reactions, the
\* iteration counter 0 and the first-solution time 0, so that a build with
\* max_iterations runs up to max_iterations rollouts of its own and a build
\* with return_first stops at its own first solution.
C40_ClearedIsFresh ==
    pc = "idle" =>
        /\ tree = EmptyTree
        /\ chemicals = <<>>
        /\ reactions = <<>>
        /\ iterations = 0
        /\ time_to_solve = 0

====
